---------------------------- MODULE Spec2Model ----------------------------
(***************************************************************************)
(* A model of snapped's tree-based overlay network (gdb-machine crate):    *)
(* the hierarchical id factory, the root's pivot registry, the per-node    *)
(* command dispatch with its two parallel tasks and reducers, and the      *)
(* pivot/join handshake of the leaves.                                     *)
(*                                                                         *)
(* u64 values are kept at their width: a u64 is a tuple of four 16-bit     *)
(* limbs, most significant first, and every operation reports whether it   *)
(* left the 64-bit range.                                                  *)
(***************************************************************************)
EXTENDS Integers, Sequences, FiniteSets, TLC

(***************************************************************************)
(* 64-bit unsigned arithmetic on limbs                                     *)
(***************************************************************************)
LimbBase == 65536

U64Zero == <<0, 0, 0, 0>>

U64One == <<0, 0, 0, 1>>

\* std::u64::MAX
U64Max == <<65535, 65535, 65535, 65535>>

\* x + y on u64: the wrapped sum and whether the addition overflowed
AddU64(x, y) ==
    LET s4 == x[4] + y[4]
        s3 == x[3] + y[3] + (s4 \div LimbBase)
        s2 == x[2] + y[2] + (s3 \div LimbBase)
        s1 == x[1] + y[1] + (s2 \div LimbBase)
    IN  [val |-> <<s1 % LimbBase, s2 % LimbBase, s3 % LimbBase, s4 % LimbBase>>,
         ovf |-> (s1 \div LimbBase) > 0]

\* x * k on u64 for a small factor k
MulU64(x, k) ==
    LET p4 == x[4] * k
        p3 == x[3] * k + (p4 \div LimbBase)
        p2 == x[2] * k + (p3 \div LimbBase)
        p1 == x[1] * k + (p2 \div LimbBase)
    IN  [val |-> <<p1 % LimbBase, p2 % LimbBase, p3 % LimbBase, p4 % LimbBase>>,
         ovf |-> (p1 \div LimbBase) > 0]

\* x / k on u64 (integer division) for a small divisor k
DivU64(x, k) ==
    LET t1 == x[1]
        t2 == (t1 % k) * LimbBase + x[2]
        t3 == (t2 % k) * LimbBase + x[3]
        t4 == (t3 % k) * LimbBase + x[4]
    IN  <<t1 \div k, t2 \div k, t3 \div k, t4 \div k>>

\* x - 1 on u64: the wrapped difference and whether the subtraction underflowed
SubOneU64(x) ==
    LET b4 == x[4] = 0
        b3 == b4 /\ x[3] = 0
        b2 == b3 /\ x[2] = 0
        b1 == b2 /\ x[1] = 0
    IN  [val |-> <<IF b2 THEN (x[1] + LimbBase - 1) % LimbBase ELSE x[1],
                   IF b3 THEN (x[2] + LimbBase - 1) % LimbBase ELSE x[2],
                   IF b4 THEN (x[3] + LimbBase - 1) % LimbBase ELSE x[3],
                   (x[4] + LimbBase - 1) % LimbBase>>,
         ovf |-> b1]

\* x < y on u64
LtU64(x, y) ==
    \E i \in 1..4 : x[i] < y[i] /\ \A j \in 1..(i - 1) : x[j] = y[j]

(***************************************************************************)
(* metadata.rs: TreeIdFactory                                              *)
(***************************************************************************)
TREE_ARITY == 24

\* TreeIdFactory::default
FactoryDefault ==
    [root_id |-> U64Zero,
     dynamic |-> U64Max,
     stride  |-> DivU64(SubOneU64(U64Max).val, TREE_ARITY),
     offset  |-> 0]

\* An inherit that increments the offset before it computes the child's root_id
InheritAfterIncrement(f) ==
    LET prod    == MulU64(f.stride, f.offset + 1)
        base    == AddU64(f.root_id, U64One)
        root    == AddU64(base.val, prod.val)
        dyn1    == SubOneU64(f.dynamic)
        dynamic == DivU64(dyn1.val, TREE_ARITY)
    IN  [ovf    |-> prod.ovf \/ base.ovf \/ root.ovf \/ dyn1.ovf,
         late   |-> ~(prod.ovf \/ base.ovf \/ root.ovf),
         parent |-> [f EXCEPT !.offset = @ + 1],
         child  |-> [root_id |-> root.val,
                     dynamic |-> dynamic,
                     stride  |-> DivU64(dynamic, TREE_ARITY),
                     offset  |-> 0]]

\* TreeIdFactory::inherit: the factory after the call (offset incremented), the
\* child factory returned, and whether an arithmetic step left the u64 range
\* (a panic in a build with overflow checks, a wrap-around otherwise).  The
\* offset is incremented after root_id is computed and before dynamic is: late
\* tells that the first step to leave the range, if any, comes after the
\* increment.
inherit(f) ==
    LET prod    == MulU64(f.stride, f.offset)
        base    == AddU64(f.root_id, U64One)
        root    == AddU64(base.val, prod.val)
        dyn1    == SubOneU64(f.dynamic)
        dynamic == DivU64(dyn1.val, TREE_ARITY)
    IN  [ovf    |-> prod.ovf \/ base.ovf \/ root.ovf \/ dyn1.ovf,
         late   |-> ~(prod.ovf \/ base.ovf \/ root.ovf),
         parent |-> [f EXCEPT !.offset = @ + 1],
         child  |-> [root_id |-> root.val,
                     dynamic |-> dynamic,
                     stride  |-> DivU64(dynamic, TREE_ARITY),
                     offset  |-> 0]]

\* TreeIdFactory::id
id(f) == f.root_id

\* A factory that counts as full only one child past TREE_ARITY
FullOnePast(f) == f.offset = TREE_ARITY + 1

\* TreeIdFactory::full
full(f) == f.offset = TREE_ARITY

(***************************************************************************)
(* tools.rs: strdistance. A string is the sequence of its character codes. *)
(***************************************************************************)
CharAt(s, i) == IF i <= Len(s) THEN s[i] ELSE 0

AbsDiff(a, b) == IF a >= b THEN a - b ELSE b - a

Max(a, b) == IF a >= b THEN a ELSE b

RECURSIVE DistUpTo(_, _, _)
DistUpTo(a, b, n) ==
    IF n = 0 THEN 0
    ELSE DistUpTo(a, b, n - 1) + AbsDiff(CharAt(a, n), CharAt(b, n))

\* String::len: the number of bytes of the UTF-8 encoding
RECURSIVE Utf8Len(_)
Utf8Len(s) ==
    IF s = <<>> THEN 0
    ELSE Utf8Len(Tail(s)) + (IF Head(s) < 128 THEN 1 ELSE IF Head(s) < 2048 THEN 2
                             ELSE IF Head(s) < 65536 THEN 3 ELSE 4)

\* A distance over the positions that both strings have
DistanceOverCommon(a, b) == DistUpTo(a, b, IF Len(a) <= Len(b) THEN Len(a) ELSE Len(b))

\* the positions run to the larger len(), which counts bytes, and chars().nth
\* beyond the last character is None
strdistance(a, b) == DistUpTo(a, b, Max(Utf8Len(a), Utf8Len(b)))

(***************************************************************************)
(* Values on the wire.  A URL "<host>:<port>" is the pair <<host, port>>.  *)
(* An error message is a sequence of parts, a part being a fixed text and  *)
(* the value formatted into it (a sequence of numbers).                    *)
(***************************************************************************)
Part(text, arg) == [text |-> text, arg |-> arg]

Range(s) == {s[i] : i \in DOMAIN s}

NoUrl == <<"", 0>>

\* protocol.rs: GdbMachineResponse; val carries State, Snapshot or Count payloads
RespError(msg) == [kind |-> "Error", msg |-> msg, id |-> U64Zero, url |-> NoUrl, val |-> <<>>]

RespOk == [kind |-> "Ok", msg |-> <<>>, id |-> U64Zero, url |-> NoUrl, val |-> <<>>]

RespPivot(i, u) == [kind |-> "Pivot", msg |-> <<>>, id |-> i, url |-> u, val |-> <<>>]

\* no response: Option::None of do_cmd, or nothing written yet
NoResp == [kind |-> "None", msg |-> <<>>, id |-> U64Zero, url |-> NoUrl, val |-> <<>>]

(***************************************************************************)
(* lib.rs: TreeState, the seen-children registry and pivot                 *)
(***************************************************************************)
\* the key "ROOT"
ROOT == <<82, 79, 79, 84>>

RootUrl == <<"root", 1>>

\* HashMap::insert
MapInsert(m, k, v) == [x \in (DOMAIN m) \cup {k} |-> IF x = k THEN v ELSE m[x]]

EmptyMap == [x \in {} |-> x]

\* TreeState::set_root
set_root(reg, root_url) ==
    MapInsert(reg, ROOT, [url |-> root_url, factory |-> FactoryDefault])

AlreadyRegistered(locator) == <<Part("Process is already registered", locator)>>

\* A closest-match search that keeps the farthest key instead of the closest
\* (the comparison of the search reversed)
ClosestMatchesReversed(reg, locator) ==
    LET open  == {k \in DOMAIN reg : ~full(reg[k].factory)}
        dists == {strdistance(k, locator) : k \in open}
    IN  {k \in open : \A d \in dists : strdistance(k, locator) >= d}

\* The closest-match search of _pivot_get_closest_id_match: a for_each over the
\* HashMap's entries with a non-full factory that keeps a key only when its
\* distance is strictly below the best so far (starting from u64::MAX).  The
\* HashMap's iteration order is unspecified, so the search may end on any
\* non-full key of minimal distance: the result is the set of these keys.
ClosestMatches(reg, locator) ==
    LET open  == {k \in DOMAIN reg : ~full(reg[k].factory)}
        dists == {strdistance(k, locator) : k \in open}
    IN  {k \in open : \A d \in dists : strdistance(k, locator) <= d}

\* The outcome of pivot when it attaches under key: inherit from key's factory,
\* insert the new entry, return (id, url).  With overflow checks the arithmetic
\* of inherit panics instead of wrapping, and a panic that comes after the
\* increment of the offset leaves the incremented offset in the registry.
PivotUnder(reg, key, locator, from, checks) ==
    LET h == inherit(reg[key].factory)
    IN  IF h.ovf /\ checks
        THEN [kind |-> "panic", resp |-> NoResp,
              reg  |-> IF h.late THEN [reg EXCEPT ![key].factory = h.parent] ELSE reg]
        ELSE [kind |-> "ok",
              resp |-> RespPivot(id(h.child), reg[key].url),
              reg  |-> MapInsert([reg EXCEPT ![key].factory = h.parent], locator,
                                 [url |-> from, factory |-> h.child])]

\* TreeState::pivot past the exact-match test of _pivot_get_closest_id_match
PivotNew(reg, locator, from, checks) ==
    IF ROOT \notin DOMAIN reg
    THEN {[kind |-> "panic", resp |-> NoResp, reg |-> reg]}
    ELSE IF ~full(reg[ROOT].factory)
    THEN {PivotUnder(reg, ROOT, locator, from, checks)}
    ELSE IF ClosestMatches(reg, locator) = {}
    THEN {[kind |-> "panic", resp |-> NoResp, reg |-> reg]}
    ELSE {IF m = ROOT
          THEN [kind |-> "panic", resp |-> NoResp, reg |-> reg]
          ELSE PivotUnder(reg, m, locator, from, checks) :
          m \in ClosestMatches(reg, locator)}

\* A pivot without the exact-match test
PivotWithoutExactMatch(reg, locator, from, checks) ==
    PivotNew(reg, locator, from, checks)

\* TreeState::pivot with _pivot_get_closest_id_match, as do_cmd answers it: the
\* set of outcomes [kind, resp, reg] the call can have on registry reg.
pivot(reg, locator, from, checks) ==
    IF locator \in DOMAIN reg
    THEN {[kind |-> "err", resp |-> RespError(AlreadyRegistered(locator)), reg |-> reg]}
    ELSE PivotNew(reg, locator, from, checks)

(***************************************************************************)
(* protocol.rs: commands, the remaining responses, Result values           *)
(***************************************************************************)
Command(kind) == [kind |-> kind, desc |-> <<>>, url |-> NoUrl]

CmdPivot(desc, from) == [kind |-> "Pivot", desc |-> desc, url |-> from]

CmdJoin(targ) == [kind |-> "Join", desc |-> <<>>, url |-> targ]

RespState(st) == [kind |-> "State", msg |-> <<>>, id |-> U64Zero, url |-> NoUrl, val |-> st]

RespSnapshot(sn) == [kind |-> "Snapshot", msg |-> <<>>, id |-> U64Zero, url |-> NoUrl, val |-> sn]

RespSymbols(sy) == [kind |-> "Symbols", msg |-> <<>>, id |-> U64Zero, url |-> NoUrl, val |-> sy]

RespCount(n) == [kind |-> "Count", msg |-> <<>>, id |-> U64Zero, url |-> NoUrl, val |-> n]

\* the handler thread panicked: nothing is written on the connection
PanicResp == [kind |-> "Panic", msg |-> <<>>, id |-> U64Zero, url |-> NoUrl, val |-> <<>>]

\* anyhow::Result: Ok(v), Err(message); Panicked when the call did not return
Ok(v) == [ok |-> TRUE, panic |-> FALSE, val |-> v, msg |-> <<>>]

Err(m) == [ok |-> FALSE, panic |-> FALSE, val |-> <<>>, msg |-> m]

Panicked == [ok |-> FALSE, panic |-> TRUE, val |-> <<>>, msg |-> <<>>]

\* GdbMachineResponse::from_result
from_result(res) == IF res.ok THEN RespOk ELSE RespError(res.msg)

\* GdbMachineResponse::from_state
from_state(res) == IF res.ok THEN RespState(res.val) ELSE RespError(res.msg)

\* GdbMachineResponse::snapshot_from_result
snapshot_from_result(ret) == IF ret.ok THEN RespSnapshot(ret.val) ELSE RespError(ret.msg)

\* GdbMachineResponse::symbols_from_result
symbols_from_result(ret) == IF ret.ok THEN RespSymbols(ret.val) ELSE RespError(ret.msg)

\* GdbMachineResponse::ok, which GdbClient::join applies to the answer
resp_ok(resp) ==
    IF resp.kind = "Ok" THEN Ok(<<>>)
    ELSE IF resp.kind = "Error" THEN Err(<<Part("Error: ", <<>>)>> \o resp.msg)
    ELSE Err(<<Part("This is not a return type", <<>>)>>)

(***************************************************************************)
(* metadata.rs: backtrace elements, snapshots and components               *)
(***************************************************************************)
\* Option::None of a line number or an exit code
NoNumber == -1

\* BacktraceState::Frame(DisplayFrame) and BacktraceState::State(DisplayState)
FrameElem(func, file, line) ==
    [tag |-> "Frame", func |-> func, file |-> file, line |-> line,
     reason |-> "", signal_name |-> "", exit_code |-> NoNumber]

StateElem(reason, signal_name, exit_code) ==
    [tag |-> "State", func |-> "", file |-> "", line |-> NoNumber,
     reason |-> reason, signal_name |-> signal_name, exit_code |-> exit_code]

\* the fields of a DebugFrame that its descriptor keeps
DebugFrame(func, fullname, line) == [func |-> func, fullname |-> fullname, line |-> line]

\* DebugFrame::exited
DebugFrameExited == DebugFrame("Process has exited (no stack)", "", NoNumber)

\* DebugFrame::descriptor (From<&DebugFrame> for BacktraceState)
descriptor(frame) == FrameElem(frame.func, frame.fullname, frame.line)

\* DebugFrame::to_component
to_component(frames) == [i \in DOMAIN frames |-> descriptor(frames[i])]

\* StopReason, with the fields From<&StopReason> keeps
StopReason(reason, signal_name, exit_code) ==
    [reason |-> reason, signal_name |-> signal_name, exit_code |-> exit_code]

StopSigint == StopReason("signal-received", "SIGINT", NoNumber)

StopExited == StopReason("exited-normally", "", NoNumber)

StopSegv == StopReason("signal-received", "SIGSEGV", NoNumber)

\* a program that exited with code 1, and one that a signal killed
StopExitedCode == StopReason("exited", "", 1)

StopKilled == StopReason("exited-signalled", "SIGKILL", NoNumber)

\* A test of the reason alone: every stop on a signal passes it
IsSignalStop(stop) == stop.reason = "signal-received"

\* StopReason::is_sigint
is_sigint(stop) == stop.signal_name = "SIGINT"

\* From<&StopReason> for BacktraceState
FromStopReason(stop) == StateElem(stop.reason, stop.signal_name, stop.exit_code)

\* The elements the programs of the model report.  DefaultHasher (SipHash with
\* fixed keys) is taken to give distinct lists of these elements distinct
\* hashes; hash_component is the positional code of the list, which does.
Elements ==
    << FrameElem("main", "main.c", 10), FrameElem("f", "main.c", 20),
       FrameElem("g", "main.c", 30), descriptor(DebugFrameExited),
       FromStopReason(StopExited), FromStopReason(StopSegv),
       FromStopReason(StopExitedCode), FromStopReason(StopKilled) >>

HashBase == Len(Elements) + 1

ElemCode(e) == CHOOSE k \in DOMAIN Elements : Elements[k] = e

RECURSIVE HashFrom(_, _)
HashFrom(h, comp) ==
    IF comp = <<>> THEN h
    ELSE HashFrom(h * HashBase + ElemCode(Head(comp)), Tail(comp))

\* DebugFrame::hash_component
hash_component(comp) == HashFrom(0, comp)

\* ProgramSnapshot: state maps a thread id to its frames; stop_state is <<>> for
\* None and <<stop>> for Some(stop)
ProgramSnapshot(state, stop_state) == [state |-> state, stop_state |-> stop_state]

\* ProgramSnapshot::exited
ProgramSnapshotExited(stop_state) ==
    ProgramSnapshot([t \in {0} |-> <<DebugFrameExited>>], stop_state)

\* the element list generate_components builds for thread th of snap
ComponentOf(snap, th) ==
    (IF snap.stop_state # <<>> /\ ~is_sigint(snap.stop_state[1])
     THEN <<FromStopReason(snap.stop_state[1])>> ELSE <<>>)
        \o to_component(snap.state[th])

\* ProgramSnapshot::generate_components: hash -> <<count, element list>>
generate_components(dist_state) ==
    LET pairs == UNION {{<<k, t>> : t \in DOMAIN dist_state[k].state} : k \in DOMAIN dist_state}
        comp(p) == ComponentOf(dist_state[p[1]], p[2])
    IN  [h \in {hash_component(comp(p)) : p \in pairs} |->
            LET same == {p \in pairs : hash_component(comp(p)) = h}
            IN  <<Cardinality(same), comp(CHOOSE p \in same : TRUE)>>]

\* A merge of one map into first that keeps first's entry on a common hash
MergeKeepingFirst(first, maps) ==
    [h \in (DOMAIN first) \cup (DOMAIN maps) |->
        IF h \in DOMAIN first THEN first[h] ELSE maps[h]]

\* the inner loops of components_merge: maps is merged into first
MergeInto(first, maps) ==
    [h \in (DOMAIN first) \cup (DOMAIN maps) |->
        IF h \in DOMAIN first
        THEN IF h \in DOMAIN maps
             THEN <<first[h][1] + maps[h][1], first[h][2]>>
             ELSE first[h]
        ELSE maps[h]]

\* the maps of components merged into one, the entry of an earlier map kept on
\* a common hash and the counts added.  The loop is taken by halves (the merge
\* is associative), which keeps the evaluation of a merge of TREE_ARITY maps flat.
RECURSIVE MergeAll(_)
MergeAll(components) ==
    IF Len(components) = 1 THEN components[1]
    ELSE LET half == Len(components) \div 2
         IN  MergeInto(MergeAll(SubSeq(components, 1, half)),
                       MergeAll(SubSeq(components, half + 1, Len(components))))

\* A merge that stops once the last map is popped
ComponentsMergePoppedOnly(components) ==
    IF components = <<>> THEN EmptyMap ELSE components[Len(components)]

\* ProgramSnapshot::components_merge: the last map is popped and the others are
\* merged into it in order
components_merge(components) ==
    IF components = <<>> THEN EmptyMap
    ELSE IF Len(components) = 1 THEN components[1]
    ELSE MergeInto(components[Len(components)],
                   MergeAll(SubSeq(components, 1, Len(components) - 1)))

(***************************************************************************)
(* lib.rs: TreeState as a Debugger.  rs is the sequence of the results of  *)
(* GdbClient::do_command on the children, in the order of the children     *)
(* list: Ok(response) or Err(message) when the exchange failed.            *)
(***************************************************************************)
\* HashMap::extend
MapExtend(m1, m2) ==
    [k \in (DOMAIN m1) \cup (DOMAIN m2) |-> IF k \in DOMAIN m2 THEN m2[k] ELSE m1[k]]

\* TreeState::run_on_children: the results are collected into one Result, which
\* is the first Err in the order of the children list when there is one
run_on_children(rs) ==
    IF \E i \in DOMAIN rs : ~rs[i].ok
    THEN Err(rs[CHOOSE i \in DOMAIN rs : ~rs[i].ok /\ \A j \in 1..(i - 1) : rs[j].ok].msg)
    ELSE Ok([i \in DOMAIN rs |-> rs[i].val])

\* errs.join(",") over the Error responses, in the order of the responses (taken
\* by halves)
RECURSIVE JoinErrs(_)
JoinErrs(resps) ==
    IF resps = <<>> THEN <<>>
    ELSE IF Len(resps) = 1 THEN (IF resps[1].kind = "Error" THEN resps[1].msg ELSE <<>>)
    ELSE LET half == Len(resps) \div 2
         IN  JoinErrs(SubSeq(resps, 1, half)) \o JoinErrs(SubSeq(resps, half + 1, Len(resps)))

\* TreeState::all_resp_ok
all_resp_ok(resps) ==
    IF \E i \in DOMAIN resps : resps[i].kind = "Error"
    THEN Err(JoinErrs(resps))
    ELSE Ok(<<>>)

\* A start that takes a node without children for an error
TreeStartNeedsChildren(rs) ==
    IF rs = <<>> THEN Err(<<Part("No children", <<>>)>>)
    ELSE LET ret == run_on_children(rs)
         IN  IF ~ret.ok THEN ret ELSE all_resp_ok(ret.val)

\* TreeState::start, stop and cont (the three bodies differ by the command sent)
tree_start(rs) ==
    IF rs = <<>> THEN Ok(<<>>)
    ELSE LET ret == run_on_children(rs)
         IN  IF ~ret.ok THEN ret ELSE all_resp_ok(ret.val)

\* the sum of the Count responses (taken by halves)
RECURSIVE SumCounts(_)
SumCounts(resps) ==
    IF resps = <<>> THEN 0
    ELSE IF Len(resps) = 1 THEN (IF resps[1].kind = "Count" THEN resps[1].val ELSE 0)
    ELSE LET half == Len(resps) \div 2
         IN  SumCounts(SubSeq(resps, 1, half)) + SumCounts(SubSeq(resps, half + 1, Len(resps)))

\* A count that returns the count of the first child alone
TreeCountFirstChild(rs) ==
    IF rs = <<>> THEN Ok(0)
    ELSE LET ret == run_on_children(rs)
         IN  IF ~ret.ok THEN ret ELSE Ok(SumCounts(SubSeq(ret.val, 1, 1)))

\* TreeState::count
tree_count(rs) ==
    IF rs = <<>> THEN Ok(0)
    ELSE LET ret == run_on_children(rs)
         IN  IF ~ret.ok THEN ret ELSE Ok(SumCounts(ret.val))

\* ret.extend(state) for each State response in order: a later response
\* overrides an earlier one on a common id (taken by halves)
RECURSIVE ExtendStates(_)
ExtendStates(resps) ==
    IF resps = <<>> THEN EmptyMap
    ELSE IF Len(resps) = 1 THEN (IF resps[1].kind = "State" THEN resps[1].val ELSE EmptyMap)
    ELSE LET half == Len(resps) \div 2
         IN  MapExtend(ExtendStates(SubSeq(resps, 1, half)),
                       ExtendStates(SubSeq(resps, half + 1, Len(resps))))

\* TreeState::state
tree_state(rs) ==
    IF rs = <<>> THEN Ok(EmptyMap)
    ELSE LET resps == run_on_children(rs)
         IN  IF ~resps.ok THEN resps
             ELSE IF ~all_resp_ok(resps.val).ok THEN all_resp_ok(resps.val)
             ELSE Ok(ExtendStates(resps.val))

\* the maps of the Snapshot responses, in order
SnapshotsOf(resps) ==
    LET snaps == SelectSeq(resps, LAMBDA r : r.kind = "Snapshot")
    IN  [i \in DOMAIN snaps |-> snaps[i].val]

\* TreeState::snapshot
tree_snapshot(rs) ==
    IF rs = <<>> THEN Ok(EmptyMap)
    ELSE LET resps == run_on_children(rs)
         IN  IF ~resps.ok THEN resps
             ELSE IF ~all_resp_ok(resps.val).ok THEN all_resp_ok(resps.val)
             ELSE Ok(components_merge(SnapshotsOf(resps.val)))

\* TreeState::symbols is todo!()
tree_symbols == Panicked

\* the Debugger method of TreeState that do_cmd calls for a command kind
TreeStateCall(kind, rs) ==
    CASE kind \in {"Start", "Stop", "Continue"} -> tree_start(rs)
      [] kind = "GetState" -> tree_state(rs)
      [] kind = "GetSnapshot" -> tree_snapshot(rs)
      [] kind = "GetSymbols" -> tree_symbols
      [] kind = "Count" -> tree_count(rs)

\* A reducer that returns the local result whatever the children answered
MergeKeepsLocal(res1, res2) == res1

\* TreeState::merge_results; res2 is NoResp for None
merge_results(res1, res2) ==
    IF res2.kind = "None" THEN res1
    ELSE CASE res1.kind = "Error" -> RespError(res1.msg)
           [] res1.kind = "Ok" ->
                IF res2.kind = "Error" THEN RespError(res2.msg)
                ELSE IF res2.kind = "Ok" THEN RespOk
                ELSE RespError(<<Part("Incompatible type to be merged Ok", <<>>)>>)
           [] res1.kind = "State" ->
                IF res2.kind = "State" THEN RespState(MapExtend(res1.val, res2.val))
                ELSE IF res2.kind = "Error" THEN RespError(res2.msg)
                ELSE RespError(<<Part("Incompatible type to be merged State", <<>>)>>)
           [] res1.kind = "Snapshot" ->
                IF res2.kind = "Snapshot"
                THEN RespSnapshot(components_merge(<<res1.val, res2.val>>))
                ELSE IF res2.kind = "Error" THEN RespError(res2.msg)
                ELSE RespError(<<Part("Incompatible type to be merged snapshot", <<>>)>>)
           [] res1.kind = "Count" ->
                IF res2.kind = "Count" THEN RespCount(res1.val + res2.val)
                ELSE IF res2.kind = "Error" THEN RespError(res2.msg)
                ELSE RespError(<<Part("Incompatible type to be merged Count", <<>>)>>)
           [] res1.kind \in {"Symbols", "Pivot"} -> PanicResp

(***************************************************************************)
(* debugger.rs, gdbmi.rs: the local debuggers                              *)
(***************************************************************************)
DummyError == <<Part("Dummy debugger", <<>>)>>

\* DummyDebugger as a Debugger
DummyDebugger(kind) ==
    CASE kind \in {"Start", "Stop", "Continue", "GetSymbols"} -> Err(DummyError)
      [] kind \in {"GetState", "GetSnapshot"} -> Ok(EmptyMap)
      [] kind = "Count" -> Ok(0)

\* the message of an MI command that gdb refused, on the node with number n
GdbError(n) == <<Part("gdb", <<n>>)>>

\* GdbMi as a Debugger, on the node with number n and id nid, whose debuggee has
\* run state run ("None" before the first run-state record, "Running",
\* "Stopped", "Exited") and would report snapshot prog when stopped; refused
\* tells whether gdb refuses the MI command the call writes.  The result and
\* the run state after the call.
GdbMi(kind, n, nid, run, prog, refused) ==
    CASE kind = "Start" ->
            IF refused THEN [res |-> Err(GdbError(n)), run |-> run]
            ELSE [res |-> Ok(<<>>), run |-> "Running"]
      [] kind = "Stop" ->
            IF run \in {"Stopped", "Exited"} THEN [res |-> Ok(<<>>), run |-> run]
            ELSE IF refused \/ run = "None" THEN [res |-> Err(GdbError(n)), run |-> run]
            ELSE [res |-> Ok(<<>>), run |-> "Stopped"]
      [] kind = "Continue" ->
            IF run = "Running" THEN [res |-> Ok(<<>>), run |-> run]
            ELSE IF refused \/ run # "Stopped" THEN [res |-> Err(GdbError(n)), run |-> run]
            ELSE [res |-> Ok(<<>>), run |-> "Running"]
      [] kind = "GetState" ->
            [res |-> Ok(IF run = "None" THEN EmptyMap ELSE [k \in {nid} |-> run]),
             run |-> run]
      [] kind = "GetSnapshot" ->
            IF run = "Running" /\ refused THEN [res |-> Err(GdbError(n)), run |-> run]
            ELSE IF run = "Exited"
            THEN [res |-> Ok(generate_components(
                                [k \in {nid} |-> ProgramSnapshotExited(<<StopExited>>)])),
                  run |-> run]
            ELSE IF refused THEN [res |-> Err(GdbError(n)), run |-> run]
            ELSE IF run = "None"
            THEN [res |-> Ok(generate_components(
                                [k \in {nid} |-> ProgramSnapshot(EmptyMap, <<>>)])),
                  run |-> run]
            ELSE [res |-> Ok(generate_components([k \in {nid} |-> prog])),
                  run |-> "Stopped"]
      [] kind = "GetSymbols" ->
            IF run = "Running"
            THEN [res |-> Err(<<Part("Symbols can only be retrieved on a stopped target", <<>>)>>),
                  run |-> run]
            ELSE IF refused THEN [res |-> Err(GdbError(n)), run |-> run]
            ELSE [res |-> Ok(<<>>), run |-> run]
      [] kind = "Count" -> [res |-> Ok(1), run |-> run]

\* the response do_cmd builds from the result res of the Debugger method it
\* called for a command of kind kind (every kind but Pivot and Join)
do_cmd(kind, res) ==
    IF res.panic THEN PanicResp
    ELSE CASE kind \in {"Start", "Stop", "Continue"} -> from_result(res)
           [] kind = "GetState" -> from_state(res)
           [] kind = "GetSnapshot" -> snapshot_from_result(res)
           [] kind = "GetSymbols" -> symbols_from_result(res)
           [] kind = "Count" -> RespCount(IF res.ok THEN res.val ELSE 0)

\* GdbMachine::_run_command after the scope: the two results are merged; a
\* panic of one of the two tasks is resumed by the scope
_run_command(local_result, remote_result) ==
    IF local_result.kind = "Panic" \/ remote_result.kind = "Panic" THEN PanicResp
    ELSE IF local_result.kind # "None" THEN merge_results(local_result, remote_result)
    ELSE RespError(<<Part("Local command did not return a response", <<>>)>>)

(***************************************************************************)
(* State                                                                   *)
(***************************************************************************)
VARIABLES
    seen_children,  \* TreeState.seen_children of the node: key -> [url, factory]
    build_checks,   \* TRUE: the build panics on integer overflow; FALSE: it wraps
    poisoned,       \* a thread panicked while it held the node's tree-state mutex
    launch,         \* the locality descriptors of the job's leaves, in launch order
    launched,       \* how many leaves of launch have sent their Pivot
    dups,           \* how many Pivots with a descriptor already sent were issued
    pconn,          \* the connections to the root that carry Pivot commands
    returned,       \* the ids of the successful Pivot responses, in order
    children,       \* TreeState.children: node number -> the URLs joined, in order
    node_kind,      \* "root" (set_master, DummyDebugger) or "leaf" (GdbMi)
    nconn,          \* the inbound connections of the node and their handlers
    dbg_poisoned,   \* a thread panicked while it held the node's debugger mutex
    state_lock,     \* the connection whose broadcast holds the tree-state mutex, or 0
    local_run,      \* the run state of the node's own debuggee
    leaf,           \* the leaf processes of a job: handshake position, id, run state
    root,           \* the root process: its position in main and its last result
    dead,           \* the leaves whose process died after they joined
    refusing,       \* the leaves whose gdb refuses MI commands
    snaps,          \* the program snapshots three nodes took of their debuggees
    reduced,        \* the component maps generated from snaps and their merges
    mi,             \* GdbMiState of a driver: response_id, resps, runstate
    gdb,            \* the gdb process of the driver: debuggee, stdin, stdout
    call,           \* the Debugger method the driver is executing, and its result
    wire,           \* a connection: the messages written, its bytes, the messages read
    dist            \* two strings and their distances (strdistance)

pivotOnly == <<dups, pconn, returned>>

nodeOnly == <<node_kind, nconn, dbg_poisoned, state_lock, local_run>>

treeOnly == <<leaf, root, dead, refusing>>

reducerOnly == <<snaps, reduced>>

driverOnly == <<mi, gdb, call>>

toolsOnly == <<wire, dist>>

vars == <<seen_children, build_checks, poisoned, launch, launched, children,
          pivotOnly, nodeOnly, treeOnly, reducerOnly, driverOnly, toolsOnly>>

\* no snapshots to reduce
NoReducer == snaps = <<>> /\ reduced = <<>>

\* no MI driver
NoDriver == mi = <<>> /\ gdb = <<>> /\ call = <<>>

\* no connection of its own
NoTools == wire = <<>> /\ dist = <<>>

(***************************************************************************)
(* The leaves of a job: bounded launch lists.  A descriptor is a string    *)
(* of two characters, which makes the distance between two of them the     *)
(* sum of the differences of their codes.                                  *)
(***************************************************************************)
\* leaves launched below the ones that fill ROOT, each closest to the one before
ChainExtra == 13

\* leaves launched halfway between two seated ones, after ROOT is full
TieExtra == 2

\* Pivots re-sending a descriptor (another process with the same descriptor)
MaxDups == 1

Conns == 1..2

Descriptor(a, b) == <<48 + a, 48 + b>>

\* ROOT is filled, then every leaf is closest to the previous one (a chain), then
\* one leaf is closest to the last but one, then the chain goes one deeper.
ChainLaunch ==
    [i \in 1..(TREE_ARITY + ChainExtra) |-> Descriptor(i, 0)]
        \o <<Descriptor(TREE_ARITY + ChainExtra - 1, 1),
             Descriptor(TREE_ARITY + ChainExtra + 1, 0)>>

\* ROOT is filled by leaves two apart, then leaves arrive halfway between two.
TieLaunch ==
    [i \in 1..TREE_ARITY |-> Descriptor(2 * i, 0)]
        \o [j \in 1..TieExtra |-> Descriptor(4 * j - 1, 0)]

\* A descriptor of TREE_ARITY / 2 + 1 characters: first character a, the
\* character at position k off the others by d
LongDescriptor(a, k, d) ==
    [x \in 1..(TREE_ARITY \div 2 + 1) |->
        IF x = 1 THEN 48 + a ELSE IF x = k THEN 48 + d ELSE 48]

\* ROOT is filled by leaves three apart, then TREE_ARITY leaves arrive that are
\* each closest to the first leaf (one character off by one, up or down), which
\* they fill, then one more leaf whose closest entry is the first leaf again.
FillLaunch ==
    [i \in 1..TREE_ARITY |-> LongDescriptor(3 * i, 1, 0)]
        \o [j \in 1..TREE_ARITY |->
                LongDescriptor(3, 2 + (j - 1) \div 2, IF j % 2 = 1 THEN 1 ELSE -1)]
        \o <<LongDescriptor(2, 1, 0)>>

LaunchLists == {ChainLaunch, TieLaunch, FillLaunch}

LeafUrl(i) == <<"leaf", i>>

DupUrl == <<"dup", 1>>

(***************************************************************************)
(* The root serving Pivot commands (GdbMachine::_client_loop, do_cmd)      *)
(***************************************************************************)
IdleConn == [pc |-> "idle", desc |-> <<>>, from |-> NoUrl, racing |-> FALSE, resp |-> NoResp]

PivotInit ==
    /\ seen_children = set_root(EmptyMap, RootUrl)
    /\ build_checks \in BOOLEAN
    /\ poisoned = FALSE
    /\ launch \in LaunchLists
    /\ launched = 0
    /\ dups = 0
    /\ pconn = [c \in Conns |-> IdleConn]
    /\ returned = <<>>
    /\ children = [n \in {0} |-> <<>>]
    /\ node_kind = "root"
    /\ nconn = <<>>
    /\ dbg_poisoned = FALSE
    /\ state_lock = 0
    /\ local_run = "None"
    /\ leaf = <<>>
    /\ root = [pc |-> "waiting"]
    /\ dead = {}
    /\ refusing = {}
    /\ NoReducer
    /\ NoDriver
    /\ NoTools

\* The descriptors a second process may carry: the key ROOT itself, and those of
\* the first leaf, of the leaf that fills ROOT and of the last leaf of the job,
\* once that leaf has sent its own Pivot.
SentDescriptors ==
    {ROOT} \cup {launch[i] : i \in {j \in {1, TREE_ARITY, Len(launch)} : j <= launched}}

\* _client_loop reads a Pivot of the next leaf of the job from connection c
\* (the leaves arrive one by one: the other connection is idle)
PivotReadFresh(c) ==
    /\ pconn[c].pc = "idle"
    /\ launched < Len(launch)
    /\ \A o \in Conns : pconn[o].pc \in {"idle", "aborted"}
    /\ launched' = launched + 1
    /\ pconn' = [pconn EXCEPT ![c] =
                    [pc |-> "read", desc |-> launch[launched + 1],
                     from |-> LeafUrl(launched + 1),
                     racing |-> launch[launched + 1] \notin DOMAIN seen_children,
                     resp |-> NoResp]]
    /\ UNCHANGED <<seen_children, build_checks, poisoned, launch, dups, returned>>
    /\ UNCHANGED <<children, nodeOnly, treeOnly, reducerOnly, driverOnly, toolsOnly>>

\* _client_loop reads, from connection c, a Pivot of another process whose
\* descriptor was sent before
PivotReadDup(c) ==
    /\ pconn[c].pc = "idle"
    /\ dups < MaxDups
    /\ \E d \in SentDescriptors :
          pconn' = [pconn EXCEPT ![c] =
                       [pc |-> "read", desc |-> d, from |-> DupUrl,
                        racing |-> d \notin DOMAIN seen_children, resp |-> NoResp]]
    /\ dups' = dups + 1
    /\ UNCHANGED <<seen_children, build_checks, poisoned, launch, launched, returned>>
    /\ UNCHANGED <<children, nodeOnly, treeOnly, reducerOnly, driverOnly, toolsOnly>>

\* do_cmd on a Pivot: both mutexes are taken, TreeState::pivot runs, the mutexes
\* are released.  A panic inside leaves both mutexes poisoned and ends the
\* handler thread without a response; so does lock().unwrap() on a poisoned mutex.
PivotHandle(c) ==
    /\ pconn[c].pc = "read"
    /\ IF poisoned
       THEN /\ pconn' = [pconn EXCEPT ![c].pc = "aborted"]
            /\ UNCHANGED <<seen_children, poisoned, returned>>
       ELSE \E o \in pivot(seen_children, pconn[c].desc, pconn[c].from, build_checks) :
               IF o.kind = "panic"
               THEN /\ poisoned' = TRUE
                    /\ pconn' = [pconn EXCEPT ![c].pc = "aborted"]
                    /\ seen_children' = o.reg
                    /\ UNCHANGED returned
               ELSE /\ seen_children' = o.reg
                    /\ pconn' = [pconn EXCEPT ![c].pc = "handled", ![c].resp = o.resp]
                    /\ returned' = IF o.kind = "ok" THEN Append(returned, o.resp.id)
                                   ELSE returned
                    /\ UNCHANGED poisoned
    /\ UNCHANGED <<build_checks, launch, launched, dups>>
    /\ UNCHANGED <<children, nodeOnly, treeOnly, reducerOnly, driverOnly, toolsOnly>>

\* _client_loop writes the response on connection c; the sender closes the
\* connection (run_as_leaf drops its client) and the slot is free again
PivotWrite(c) ==
    /\ pconn[c].pc = "handled"
    /\ pconn' = [pconn EXCEPT ![c] = IdleConn]
    /\ UNCHANGED <<seen_children, build_checks, poisoned, launch, launched, dups, returned>>
    /\ UNCHANGED <<children, nodeOnly, treeOnly, reducerOnly, driverOnly, toolsOnly>>

PivotNext ==
    \E c \in Conns :
        \/ PivotReadFresh(c)
        \/ PivotReadDup(c)
        \/ PivotHandle(c)
        \/ PivotWrite(c)

SpecPivot == PivotInit /\ [][PivotNext]_vars

(***************************************************************************)
(* Claims about the pivot registry                                         *)
(***************************************************************************)
\* C1: the ids returned by the successful pivots are pairwise distinct and none
\* is 0, the id of the root factory, whatever the depth of the tree.
C1_ReturnedIdsDistinct ==
    \A i, j \in DOMAIN returned :
        /\ returned[i] # U64Zero
        /\ (i # j => returned[i] # returned[j])

\* the step in which connection c's handler answers its Pivot
PivotAnswered(c) == pconn[c].pc = "read" /\ pconn'[c].pc = "handled"

C3_AttachedUnder(c, k) ==
    /\ pconn'[c].resp.kind = "Pivot"
    /\ pconn'[c].resp.url = seen_children[k].url
    /\ pconn'[c].resp.id = inherit(seen_children[k].factory).child.root_id
    /\ pconn[c].desc \in DOMAIN seen_children'
    /\ seen_children'[pconn[c].desc] =
          [url |-> pconn[c].from, factory |-> inherit(seen_children[k].factory).child]

C3_PivotSelectsAttacher ==
    [][\A c \in Conns :
        (PivotAnswered(c) /\ pconn[c].desc \notin DOMAIN seen_children)
        => IF seen_children[ROOT].factory.offset # TREE_ARITY
           THEN /\ C3_AttachedUnder(c, ROOT)
                /\ pconn'[c].resp.url = RootUrl
           ELSE \E k \in DOMAIN seen_children :
                   /\ C3_AttachedUnder(c, k)
                   /\ seen_children[k].factory.offset # TREE_ARITY
                   /\ \A j \in DOMAIN seen_children :
                         seen_children[j].factory.offset # TREE_ARITY
                         => strdistance(k, pconn[c].desc) <= strdistance(j, pconn[c].desc)
      ]_vars

\* C3's case: ROOT is full and a new descriptor was seated under another entry,
\* after earlier ones were seated under ROOT
C3_Witness ==
    \E c \in Conns :
        /\ pconn[c].pc = "handled"
        /\ pconn[c].resp.kind = "Pivot"
        /\ pconn[c].resp.url # RootUrl
        /\ seen_children[ROOT].factory.offset = TREE_ARITY
        /\ seen_children[pconn[c].desc].url = pconn[c].from

\* the step in which connection c's handler answers its Pivot with an id
PivotSeated(c) == PivotAnswered(c) /\ pconn'[c].resp.kind = "Pivot"

\* the entries whose URL the response of connection c names as attacher
AttachersOf(c) == {k \in DOMAIN seen_children : seen_children[k].url = pconn'[c].resp.url}

\* C12: every successful pivot is one inherit() on the attacher's factory F: F's
\* offset goes up by one and nothing else of F changes, and the child factory
\* registered for the new descriptor has root_id = F.root_id + 1 + F.stride * i,
\* i being F's offset before the call (the number of earlier calls), dynamic =
\* (F.dynamic - 1) / ARITY, stride = dynamic / ARITY and offset 0, its root_id
\* being the id returned (u64 arithmetic); the first four pivots on a fresh root
\* return 1, 1 + s, 1 + 2s and 1 + 3s, s = (u64::MAX - 1) / 24 = 0x0AAAAAAAAAAAAAAA.
C12_InheritArithmetic ==
    [][/\ \A c \in Conns :
            PivotSeated(c)
            => \E k \in AttachersOf(c) :
                  LET F == seen_children[k].factory
                      G == seen_children'[pconn[c].desc].factory
                  IN  /\ seen_children'[k].factory = [F EXCEPT !.offset = F.offset + 1]
                      /\ G.root_id = AddU64(AddU64(F.root_id, U64One).val,
                                            MulU64(F.stride, F.offset).val).val
                      /\ G.dynamic = DivU64(SubOneU64(F.dynamic).val, TREE_ARITY)
                      /\ G.stride = DivU64(G.dynamic, TREE_ARITY)
                      /\ G.offset = 0
                      /\ pconn'[c].resp.id = G.root_id
       /\ Len(returned') >= 1 => returned'[1] = <<0, 0, 0, 1>>
       /\ Len(returned') >= 2 => returned'[2] = <<2730, 43690, 43690, 43691>>
       /\ Len(returned') >= 3 => returned'[3] = <<5461, 21845, 21845, 21845>>
       /\ Len(returned') >= 4 => returned'[4] = <<8191, 65535, 65535, 65535>>
      ]_vars

\* C12's case: four pivots and more were answered on a fresh root, and inherit
\* was called at least twice on the factory of an entry other than ROOT
C12_Witness ==
    /\ Len(returned) >= 4
    /\ \E k \in DOMAIN seen_children \ {ROOT} : seen_children[k].factory.offset >= 2

SomeEntryOpen(reg) ==
    full(reg[ROOT].factory) => \E k \in DOMAIN reg \ {ROOT} : ~full(reg[k].factory)

\* C14: on a root (set_root, then Pivots) whenever ROOT's factory is full another
\* entry's is not, and a Pivot with a new descriptor that a handler takes up on
\* a node whose mutexes are not poisoned is answered with an id: its handler
\* does not end in a panic.
C14_NewPivotAlwaysSeated ==
    [][/\ ~poisoned' => SomeEntryOpen(seen_children')
       /\ \A c \in Conns :
             (pconn[c].pc = "read" /\ pconn'[c].pc # "read" /\ ~poisoned
                /\ pconn[c].desc \notin DOMAIN seen_children)
             => /\ pconn'[c].pc = "handled"
                /\ pconn'[c].resp.kind = "Pivot"
      ]_vars

\* the position of entry k in the order of registration: the index of its id
\* among the ids returned
RegistrationRank(k) ==
    CHOOSE n \in DOMAIN returned :
        /\ returned[n] = id(seen_children[k].factory)
        /\ \A m \in 1..(n - 1) : returned[m] # returned[n]

\* the entries that are not full and at minimal distance from descriptor d
\* among those that are not full
TiedMatches(d) ==
    LET open == {k \in DOMAIN seen_children : seen_children[k].factory.offset # TREE_ARITY}
    IN  {k \in open : \A j \in open : strdistance(k, d) <= strdistance(j, d)}

\* C15: when ROOT is full and several entries that are not full are at the same
\* minimal distance from the new descriptor, the pivot is attached under the
\* one of them that was registered first.
C15_TieGoesToFirstRegistered ==
    [][\A c \in Conns :
        (PivotSeated(c) /\ seen_children[ROOT].factory.offset = TREE_ARITY)
        => \E k \in AttachersOf(c) \cap TiedMatches(pconn[c].desc) :
              \A j \in TiedMatches(pconn[c].desc) : RegistrationRank(k) <= RegistrationRank(j)
      ]_vars

(***************************************************************************)
(* One node serving commands: GdbMachine::_client_loop and _run_command.   *)
(* The node is a root (set_master, DummyDebugger) or a leaf (GdbMi); its   *)
(* children are the connections its Join commands opened.                  *)
(***************************************************************************)
\* the children a node of this specification joins at most
MaxChildren == 2

\* the inbound connections of the node: a client that issues every command,
\* and a second client that polls the tree with Count while the first is served
NodeConns == {1, 2}

\* the number of the node
Self == 0

ChildUrl(k) == <<"child", k>>

\* the id of the node and of its k-th child
NodeId(k) == <<0, 0, 0, k>>

CommandKinds ==
    {"Start", "Stop", "Continue", "GetState", "GetSnapshot", "GetSymbols", "Count"}

\* the frames of the threads of the debuggee number i
ThreadsOf(i) ==
    CASE i % 3 = 0 -> [t \in {1} |-> <<DebugFrame("f", "main.c", 20), DebugFrame("main", "main.c", 10)>>]
      [] i % 3 = 1 -> [t \in {1, 2} |->
                        IF t = 1
                        THEN <<DebugFrame("f", "main.c", 20), DebugFrame("main", "main.c", 10)>>
                        ELSE <<DebugFrame("g", "main.c", 30), DebugFrame("main", "main.c", 10)>>]
      [] OTHER -> [t \in {1} |-> <<DebugFrame("main", "main.c", 10)>>]

\* the snapshot of the debuggee number i once it was interrupted
ProgramOf(i) == ProgramSnapshot(ThreadsOf(i), <<StopSigint>>)

\* the message of a failed exchange with child k (GdbClient::do_command's ?)
ConnectionError(k) == <<Part("connection", <<k>>)>>

\* the message of an Error response of child k
ChildError(k) == <<Part("child error", <<k>>)>>

\* the response of child k to a command it completes
ChildValue(kind, k) ==
    CASE kind \in {"Start", "Stop", "Continue"} -> RespOk
      [] kind = "GetState" -> RespState([x \in {NodeId(k)} |-> "Running"])
      [] kind = "GetSnapshot" ->
            RespSnapshot(generate_components([x \in {NodeId(k)} |-> ProgramOf(k)]))
      [] kind = "Count" -> RespCount(1)

\* GdbClient::do_command on child k: the exchange fails, or the child answers
\* Error, or it answers the value; a child never answers Error to Count
ChildAnswers(kind, k) ==
    {Err(ConnectionError(k)), Ok(ChildValue(kind, k))}
        \cup (IF kind = "Count" THEN {} ELSE {Ok(RespError(ChildError(k)))})

\* the results of the exchanges with n children
ChildResults(kind, n) ==
    {rs \in [1..n -> UNION {ChildAnswers(kind, k) : k \in 1..n}] :
        \A k \in 1..n : rs[k] \in ChildAnswers(kind, k)}

IdleNode ==
    [pc |-> "idle", cmd |-> Command("None"), remote |-> "todo", local |-> "todo",
     answers |-> <<>>, tree_result |-> Ok(<<>>), remote_result |-> NoResp,
     local_result |-> NoResp, resp |-> NoResp, local_thread |-> 0]

NodeInit ==
    /\ node_kind \in {"root", "leaf"}
    /\ seen_children = IF node_kind = "root" THEN set_root(EmptyMap, RootUrl) ELSE EmptyMap
    /\ build_checks \in BOOLEAN
    /\ poisoned = FALSE
    /\ dbg_poisoned = FALSE
    /\ state_lock = 0
    /\ local_run = "None"
    /\ children = [n \in {Self} |-> <<>>]
    /\ nconn = [c \in NodeConns |-> IdleNode]
    /\ launch = <<>>
    /\ launched = 0
    /\ dups = 0
    /\ pconn = <<>>
    /\ returned = <<>>
    /\ leaf = <<>>
    /\ root = [pc |-> "waiting"]
    /\ dead = {}
    /\ refusing = {}
    /\ NoReducer
    /\ NoDriver
    /\ NoTools

\* the commands the client of connection c may write: the seven debugger
\* commands, a Pivot, and the Join of the next child; Count on the second
\* connection
NodeCommands(c) ==
    IF c = 2 THEN {Command("Count")}
    ELSE {Command(k) : k \in CommandKinds}
            \cup {CmdPivot(Descriptor(1, 0), ChildUrl(1))}
            \cup {CmdJoin(ChildUrl(Len(children[Self]) + 1)) :
                      x \in {y \in {1} : Len(children[Self]) < MaxChildren}}

\* _client_loop reads a command from connection c and _run_command spawns the
\* two tasks
NodeRead(c) ==
    /\ nconn[c].pc = "idle"
    /\ \E cmd \in NodeCommands(c) :
          nconn' = [nconn EXCEPT ![c] = [IdleNode EXCEPT !.pc = "running", !.cmd = cmd]]
    /\ UNCHANGED <<seen_children, build_checks, poisoned, launch, launched, children>>
    /\ UNCHANGED <<node_kind, dbg_poisoned, state_lock, local_run, pivotOnly, treeOnly, reducerOnly, driverOnly, toolsOnly>>

\* A remote task that writes to the children without taking the tree-state mutex
RemoteBeginUnlocked(c) ==
    /\ nconn[c].pc = "running"
    /\ nconn[c].remote = "todo"
    /\ LET kind == nconn[c].cmd.kind
           res  == TreeStateCall(kind, <<>>)
       IN  IF poisoned
           THEN /\ nconn' = [nconn EXCEPT ![c].remote = "done", ![c].remote_result = PanicResp]
                /\ UNCHANGED <<poisoned, state_lock>>
           ELSE IF kind \in {"Pivot", "Join"}
           THEN /\ nconn' = [nconn EXCEPT ![c].remote = "done", ![c].remote_result = NoResp]
                /\ UNCHANGED <<poisoned, state_lock>>
           ELSE IF children[Self] = <<>> \/ kind = "GetSymbols"
           THEN /\ nconn' = [nconn EXCEPT ![c].remote = "done", ![c].tree_result = res,
                                          ![c].remote_result = do_cmd(kind, res)]
                /\ poisoned' = res.panic
                /\ UNCHANGED state_lock
           ELSE /\ nconn' = [nconn EXCEPT ![c].remote = "sent"]
                /\ state_lock' = c
                /\ UNCHANGED poisoned
    /\ UNCHANGED <<seen_children, build_checks, launch, launched, children>>
    /\ UNCHANGED <<node_kind, dbg_poisoned, local_run, pivotOnly, treeOnly, reducerOnly, driverOnly, toolsOnly>>

\* The remote task, do_cmd(state, None, cmd): it locks the tree-state mutex as
\* its debugger.  Pivot and Join give None.  With children the command is
\* written to each of them and the mutex stays held until they answered;
\* without, the call returns at once.  TreeState::symbols panics, which
\* poisons the mutex; so does locking a poisoned mutex end the task.
RemoteBegin(c) ==
    /\ nconn[c].pc = "running"
    /\ nconn[c].remote = "todo"
    /\ state_lock = 0
    /\ LET kind == nconn[c].cmd.kind
           res  == TreeStateCall(kind, <<>>)
       IN  IF poisoned
           THEN /\ nconn' = [nconn EXCEPT ![c].remote = "done", ![c].remote_result = PanicResp]
                /\ UNCHANGED <<poisoned, state_lock>>
           ELSE IF kind \in {"Pivot", "Join"}
           THEN /\ nconn' = [nconn EXCEPT ![c].remote = "done", ![c].remote_result = NoResp]
                /\ UNCHANGED <<poisoned, state_lock>>
           ELSE IF children[Self] = <<>> \/ kind = "GetSymbols"
           THEN /\ nconn' = [nconn EXCEPT ![c].remote = "done", ![c].tree_result = res,
                                          ![c].remote_result = do_cmd(kind, res)]
                /\ poisoned' = res.panic
                /\ UNCHANGED state_lock
           ELSE /\ nconn' = [nconn EXCEPT ![c].remote = "sent"]
                /\ state_lock' = c
                /\ UNCHANGED poisoned
    /\ UNCHANGED <<seen_children, build_checks, launch, launched, children>>
    /\ UNCHANGED <<node_kind, dbg_poisoned, local_run, pivotOnly, treeOnly, reducerOnly, driverOnly, toolsOnly>>

\* The remote task gets the results of the exchanges with the children, the
\* TreeState method reduces them and the mutex is released
RemoteEnd(c) ==
    /\ nconn[c].pc = "running"
    /\ nconn[c].remote = "sent"
    /\ \E rs \in ChildResults(nconn[c].cmd.kind, Len(children[Self])) :
          LET res == TreeStateCall(nconn[c].cmd.kind, rs)
          IN  nconn' = [nconn EXCEPT ![c].remote = "done", ![c].answers = rs,
                                     ![c].tree_result = res,
                                     ![c].remote_result = do_cmd(nconn[c].cmd.kind, res)]
    /\ state_lock' = 0
    /\ UNCHANGED <<seen_children, build_checks, poisoned, launch, launched, children>>
    /\ UNCHANGED <<node_kind, dbg_poisoned, local_run, pivotOnly, treeOnly, reducerOnly, driverOnly, toolsOnly>>

\* The tasks of _run_command and the exchanges of run_on_children's par_iter_mut
\* are jobs of one rayon pool.  With two children or more the exchanges are
\* split among the workers, and the worker of c's remote task, waiting for an
\* exchange another worker took, takes a job that is waiting: the remote task
\* of d.  That task locks the tree-state mutex, which its own thread holds
\* further down its stack.  Locking a std Mutex again on the thread that holds
\* it never returns: it blocks for ever, and then c's task is never resumed
\* either, or it panics, which ends d's task as a panic does.
RemoteStolen(c, d) ==
    /\ nconn[c].pc = "running" /\ nconn[c].remote = "sent"
    /\ state_lock = c
    /\ Len(children[Self]) >= 2
    /\ nconn[d].pc = "running" /\ nconn[d].remote = "todo"
    /\ \E relock \in {"blocks", "panics"} :
          nconn' = IF relock = "blocks"
                   THEN [nconn EXCEPT ![c].remote = "suspended", ![d].remote = "relocking"]
                   ELSE [nconn EXCEPT ![d].remote = "done", ![d].remote_result = PanicResp]
    /\ UNCHANGED <<seen_children, build_checks, poisoned, launch, launched, children>>
    /\ UNCHANGED <<node_kind, dbg_poisoned, state_lock, local_run, pivotOnly, treeOnly, reducerOnly, driverOnly, toolsOnly>>

\* The local task, do_cmd(dbg, Some(state), cmd), on a debugger command: it
\* locks the debugger mutex and calls the local debugger.  t is the thread
\* that runs the task: 0 for a thread that runs nothing else, or the
\* connection whose remote task is further down the stack of the thread.
LocalDebuggerOn(c, t) ==
    /\ nconn[c].pc = "running"
    /\ nconn[c].local = "todo"
    /\ nconn[c].cmd.kind \in CommandKinds
    /\ LET kind == nconn[c].cmd.kind
       IN  IF dbg_poisoned
           THEN /\ nconn' = [nconn EXCEPT ![c].local = "done", ![c].local_result = PanicResp,
                                          ![c].local_thread = t]
                /\ UNCHANGED local_run
           ELSE IF node_kind = "root"
           THEN /\ nconn' = [nconn EXCEPT ![c].local = "done", ![c].local_thread = t,
                                          ![c].local_result = do_cmd(kind, DummyDebugger(kind))]
                /\ UNCHANGED local_run
           ELSE \E refused \in BOOLEAN :
                   LET g == GdbMi(kind, Self, NodeId(0), local_run, ProgramOf(0), refused)
                   IN  /\ nconn' = [nconn EXCEPT ![c].local = "done", ![c].local_thread = t,
                                                 ![c].local_result = do_cmd(kind, g.res)]
                       /\ local_run' = g.run
    /\ UNCHANGED <<seen_children, build_checks, poisoned, launch, launched, children>>
    /\ UNCHANGED <<node_kind, dbg_poisoned, state_lock, pivotOnly, treeOnly, reducerOnly, driverOnly, toolsOnly>>

\* the local task on a thread of its own
LocalDebugger(c) == LocalDebuggerOn(c, 0)

\* The worker of c's remote task, waiting for an exchange of run_on_children
\* that another worker took, takes a job that is waiting: the local task of d
\* (d can be c, whose two tasks are jobs of one scope).  The task locks the
\* debugger mutex on a thread that holds the tree-state mutex.
LocalStolen(c, d) ==
    /\ nconn[c].pc = "running" /\ nconn[c].remote = "sent"
    /\ state_lock = c
    /\ Len(children[Self]) >= 2
    /\ LocalDebuggerOn(d, c)

\* The local task on a Pivot: it locks the debugger mutex, then the tree-state
\* mutex, and calls TreeState::pivot.  A panic poisons both mutexes.
LocalPivot(c) ==
    /\ nconn[c].pc = "running"
    /\ nconn[c].local = "todo"
    /\ nconn[c].cmd.kind = "Pivot"
    /\ IF dbg_poisoned
       THEN /\ nconn' = [nconn EXCEPT ![c].local = "done", ![c].local_result = PanicResp]
            /\ UNCHANGED <<seen_children, poisoned, dbg_poisoned>>
       ELSE /\ state_lock = 0
            /\ IF poisoned
               THEN /\ nconn' = [nconn EXCEPT ![c].local = "done", ![c].local_result = PanicResp]
                    /\ dbg_poisoned' = TRUE
                    /\ UNCHANGED <<seen_children, poisoned>>
               ELSE \E o \in pivot(seen_children, nconn[c].cmd.desc, nconn[c].cmd.url, build_checks) :
                       IF o.kind = "panic"
                       THEN /\ nconn' = [nconn EXCEPT ![c].local = "done",
                                                      ![c].local_result = PanicResp]
                            /\ poisoned' = TRUE
                            /\ dbg_poisoned' = TRUE
                            /\ seen_children' = o.reg
                       ELSE /\ nconn' = [nconn EXCEPT ![c].local = "done",
                                                      ![c].local_result = o.resp]
                            /\ seen_children' = o.reg
                            /\ UNCHANGED <<poisoned, dbg_poisoned>>
    /\ UNCHANGED <<build_checks, launch, launched, children>>
    /\ UNCHANGED <<node_kind, state_lock, local_run, pivotOnly, treeOnly, reducerOnly, driverOnly, toolsOnly>>

\* A Join that answers Ok whether the connection to the target succeeded or not
LocalJoinAnsweringOk(c) ==
    /\ nconn[c].pc = "running"
    /\ nconn[c].local = "todo"
    /\ nconn[c].cmd.kind = "Join"
    /\ IF dbg_poisoned
       THEN /\ nconn' = [nconn EXCEPT ![c].local = "done", ![c].local_result = PanicResp]
            /\ UNCHANGED <<children, dbg_poisoned>>
       ELSE /\ state_lock = 0
            /\ IF poisoned
               THEN /\ nconn' = [nconn EXCEPT ![c].local = "done", ![c].local_result = PanicResp]
                    /\ dbg_poisoned' = TRUE
                    /\ UNCHANGED children
               ELSE \E connected \in BOOLEAN :
                       IF connected
                       THEN /\ children' = [children EXCEPT ![Self] = Append(@, nconn[c].cmd.url)]
                            /\ nconn' = [nconn EXCEPT ![c].local = "done",
                                                      ![c].local_result = RespOk]
                            /\ UNCHANGED dbg_poisoned
                       ELSE /\ nconn' = [nconn EXCEPT ![c].local = "done",
                                           ![c].local_result = RespOk]
                            /\ UNCHANGED <<children, dbg_poisoned>>
    /\ UNCHANGED <<seen_children, build_checks, poisoned, launch, launched>>
    /\ UNCHANGED <<node_kind, state_lock, local_run, pivotOnly, treeOnly, reducerOnly, driverOnly, toolsOnly>>

\* The local task on a Join: it locks the debugger mutex, then the tree-state
\* mutex, and TreeState::join connects to the target: the connection is pushed
\* on the children list, or the connection error is answered
LocalJoin(c) ==
    /\ nconn[c].pc = "running"
    /\ nconn[c].local = "todo"
    /\ nconn[c].cmd.kind = "Join"
    /\ IF dbg_poisoned
       THEN /\ nconn' = [nconn EXCEPT ![c].local = "done", ![c].local_result = PanicResp]
            /\ UNCHANGED <<children, dbg_poisoned>>
       ELSE /\ state_lock = 0
            /\ IF poisoned
               THEN /\ nconn' = [nconn EXCEPT ![c].local = "done", ![c].local_result = PanicResp]
                    /\ dbg_poisoned' = TRUE
                    /\ UNCHANGED children
               ELSE \E connected \in BOOLEAN :
                       IF connected
                       THEN /\ children' = [children EXCEPT ![Self] = Append(@, nconn[c].cmd.url)]
                            /\ nconn' = [nconn EXCEPT ![c].local = "done",
                                                      ![c].local_result = RespOk]
                            /\ UNCHANGED dbg_poisoned
                       ELSE /\ nconn' = [nconn EXCEPT ![c].local = "done",
                                           ![c].local_result =
                                               RespError(ConnectionError(Len(children[Self]) + 1))]
                            /\ UNCHANGED <<children, dbg_poisoned>>
    /\ UNCHANGED <<seen_children, build_checks, poisoned, launch, launched>>
    /\ UNCHANGED <<node_kind, state_lock, local_run, pivotOnly, treeOnly, reducerOnly, driverOnly, toolsOnly>>

\* The scope of _run_command ends when both tasks ended; the results are merged
\* into the response, or the panic of a task is resumed and ends the handler
NodeMerge(c) ==
    /\ nconn[c].pc = "running"
    /\ nconn[c].remote = "done"
    /\ nconn[c].local = "done"
    /\ LET resp == _run_command(nconn[c].local_result, nconn[c].remote_result)
       IN  nconn' = [nconn EXCEPT ![c].pc = IF resp.kind = "Panic" THEN "aborted" ELSE "handled",
                                  ![c].resp = resp, ![c].local_thread = 0]
    /\ UNCHANGED <<seen_children, build_checks, poisoned, launch, launched, children>>
    /\ UNCHANGED <<node_kind, dbg_poisoned, state_lock, local_run, pivotOnly, treeOnly, reducerOnly, driverOnly, toolsOnly>>

\* _client_loop writes the response and waits for the next command
NodeWrite(c) ==
    /\ nconn[c].pc = "handled"
    /\ nconn' = [nconn EXCEPT ![c] = IdleNode]
    /\ UNCHANGED <<seen_children, build_checks, poisoned, launch, launched, children>>
    /\ UNCHANGED <<node_kind, dbg_poisoned, state_lock, local_run, pivotOnly, treeOnly, reducerOnly, driverOnly, toolsOnly>>

\* The handler thread of connection c ended in a panic, which closed the
\* connection; GdbMachine::run accepts the next connection of the client
NodeAccept(c) ==
    /\ nconn[c].pc = "aborted"
    /\ nconn' = [nconn EXCEPT ![c] = IdleNode]
    /\ UNCHANGED <<seen_children, build_checks, poisoned, launch, launched, children>>
    /\ UNCHANGED <<node_kind, dbg_poisoned, state_lock, local_run, pivotOnly, treeOnly, reducerOnly, driverOnly, toolsOnly>>

NodeNext ==
    \E c \in NodeConns :
        \/ NodeRead(c)
        \/ RemoteBegin(c)
        \/ RemoteEnd(c)
        \/ \E d \in NodeConns \ {c} : RemoteStolen(c, d)
        \/ \E d \in NodeConns : LocalStolen(c, d)
        \/ LocalDebugger(c)
        \/ LocalPivot(c)
        \/ LocalJoin(c)
        \/ NodeMerge(c)
        \/ NodeWrite(c)
        \/ NodeAccept(c)

SpecNode == NodeInit /\ [][NodeNext]_vars

(***************************************************************************)
(* Claims about one node                                                   *)
(***************************************************************************)
\* the children whose exchange failed or who answered Error, among results rs
FailingChildren(rs) ==
    {k \in DOMAIN rs : ~rs[k].ok \/ rs[k].val.kind = "Error"}

\* the parts of the error of child k among results rs
FailureOf(rs, k) == IF rs[k].ok THEN Range(rs[k].val.msg) ELSE Range(rs[k].msg)

\* C5: when a debugger operation of the tree state was run on at least one child
\* and a child answered Error or its exchange failed, the operation returns an
\* error whose message contains the error of every failing child; it returns a
\* merged value only when no child failed.
C5_EveryChildErrorReported ==
    \A c \in NodeConns :
        (nconn[c].remote = "done" /\ nconn[c].answers # <<>>)
        => LET rs  == nconn[c].answers
               res == nconn[c].tree_result
           IN  /\ FailingChildren(rs) # {}
                    => /\ ~res.ok
                       /\ \A k \in FailingChildren(rs) : FailureOf(rs, k) \subseteq Range(res.msg)
               /\ res.ok => FailingChildren(rs) = {}

\* the response kind that matches a command kind
MatchingKind(kind) ==
    CASE kind \in {"Start", "Stop", "Continue", "Join"} -> "Ok"
      [] kind = "GetState" -> "State"
      [] kind = "GetSnapshot" -> "Snapshot"
      [] kind = "GetSymbols" -> "Symbols"
      [] kind = "Count" -> "Count"
      [] kind = "Pivot" -> "Pivot"
      [] OTHER -> "None"

\* C7: no command read from a connection makes the handler end without a
\* response, and the response of a command is an Error or of the kind that
\* matches the command.
C7_EveryCommandAnswered ==
    \A c \in NodeConns :
        /\ nconn[c].pc # "aborted"
        /\ nconn[c].pc = "handled"
              => nconn[c].resp.kind \in {"Error", MatchingKind(nconn[c].cmd.kind)}

\* C8: the response of a debugger command is computed after both tasks ended,
\* and on a node without a local debuggee (the root, with its DummyDebugger) it
\* equals the aggregate of the children, the local part being the identity.
C8_RootAnswersChildrenAggregate ==
    \A c \in NodeConns :
        (nconn[c].pc = "handled" /\ nconn[c].cmd.kind \in CommandKinds)
        => /\ nconn[c].remote = "done" /\ nconn[c].local = "done"
           /\ node_kind = "root" => nconn[c].resp = nconn[c].remote_result

C16_PivotJoinTreeOnly ==
    [][\A c \in NodeConns :
        (nconn[c].cmd.kind \in {"Pivot", "Join"} /\ nconn'[c] # nconn[c]
            /\ nconn[c].pc = "running")
        => /\ local_run' = local_run
           /\ nconn'[c].remote # "sent"
           /\ nconn'[c].answers = <<>>
           /\ nconn[c].cmd.kind = "Pivot" => children' = children
           /\ nconn[c].cmd.kind = "Join"
                 => /\ seen_children' = seen_children
                    /\ (nconn[c].local = "todo" /\ nconn'[c].local = "done"
                          /\ nconn'[c].local_result.kind # "Panic")
                       => \/ /\ children' = [children EXCEPT
                                                ![Self] = Append(@, nconn[c].cmd.url)]
                             /\ nconn'[c].local_result = RespOk
                          \/ /\ children' = children
                             /\ nconn'[c].local_result.kind = "Error"
                    /\ ~(nconn[c].local = "todo" /\ nconn'[c].local = "done")
                       => children' = children
                    /\ nconn'[c].pc = "handled" => nconn'[c].resp = nconn[c].local_result
      ]_vars

\* C16's case: a Join was answered Ok on a node that had a child already, and
\* the children list is one longer
C16_Witness ==
    \E c \in NodeConns :
        /\ nconn[c].pc = "handled"
        /\ nconn[c].cmd.kind = "Join"
        /\ nconn[c].resp = RespOk
        /\ Len(children[Self]) = 2
        /\ children[Self][2] = nconn[c].cmd.url

(***************************************************************************)
(* A job: the root process (main, be_root_server, run_in_snapshot_mode)    *)
(* and the leaf processes of a launch list (run_as_leaf).  Node 0 is the   *)
(* root; node i is the i-th leaf, which listens on LeafUrl(i).             *)
(***************************************************************************)
\* leaves that may be between their Pivot and their accept loop at a time
Window == 2

\* leaves that die, or whose gdb starts refusing commands, once the tree is built
MaxFaults == 1

\* the launch of the chain without its last leaf
DeepLaunch == SubSeq(ChainLaunch, 1, Len(ChainLaunch) - 1)

\* three leaves, the third with the descriptor of the first
TwinLaunch == <<Descriptor(1, 0), Descriptor(2, 0), Descriptor(1, 0)>>

TreeLaunches == {DeepLaunch, TwinLaunch, ChainLaunch}

\* the leaves that may start while earlier ones are still in their handshake
\* (the others start once the earlier ones serve)
EarlyLeaves == {2, Len(launch)}

Leaves == 1..Len(launch)

\* the leaf numbers of the longest launch
LeafNumbers == 1..Len(ChainLaunch)

NodeOf(url) == IF url = RootUrl THEN 0 ELSE url[2]

\* the nodes whose URL is on the children list of node n
Kids(n) == {NodeOf(children[n][j]) : j \in DOMAIN children[n]}

\* the nodes a command of the root reaches, given that it reaches those of
\* nodes: the children connections are followed, those to dead processes excepted
RECURSIVE ReachedFrom(_)
ReachedFrom(nodes) ==
    LET more == nodes \cup UNION {Kids(n) \ dead : n \in nodes}
    IN  IF more = nodes THEN nodes ELSE ReachedFrom(more)

Reached == ReachedFrom({0})

\* the debuggee of leaf i exits by itself once started
ExitsByItself(i) == i % 3 = 2

\* GdbMi of leaf n called for a command kind
LeafDebugger(kind, n) ==
    GdbMi(kind, n, leaf[n].id, leaf[n].run, ProgramOf(n), n \in refusing)

\* the exchange of a command with child k (GdbClient::do_command): it fails when
\* k is dead and returns k's response, taken from responses, otherwise
Exchange(k, responses) == IF k \in dead THEN Err(ConnectionError(k)) ELSE Ok(responses[k])

\* the results of run_on_children's exchanges on node n
ExchangesOf(n, responses) ==
    [j \in DOMAIN children[n] |-> Exchange(NodeOf(children[n][j]), responses)]

\* The response leaf n writes to a command of a debugger kind (_run_command on
\* the leaf): its local result merged with the result of its own tree state,
\* which exchanged the command with each of its children; responses holds the
\* responses of the children that live.
NodeResponse(kind, n, responses) ==
    _run_command(do_cmd(kind, LeafDebugger(kind, n).res),
                 do_cmd(kind, TreeStateCall(kind, ExchangesOf(n, responses))))

\* the responses of the leaves of reached, given those in responses: a leaf
\* answers once each of its children that lives has answered
RECURSIVE ResponsesFrom(_, _, _)
ResponsesFrom(kind, reached, responses) ==
    LET ready == {n \in reached \ DOMAIN responses : Kids(n) \ dead \subseteq DOMAIN responses}
    IN  IF ready = {} THEN responses
        ELSE ResponsesFrom(kind, reached,
                           responses @@ [n \in ready |-> NodeResponse(kind, n, responses)])

\* the response of every leaf that a command of the root reaches
Responses(kind) == ResponsesFrom(kind, Reached \ {0}, EmptyMap)

\* RootDebugger: the method of the root's tree state for a command kind
RootCall(kind) == TreeStateCall(kind, ExchangesOf(0, Responses(kind)))

\* a process of the tree is dead, or a reached node answers Error to the command
Faulty(kind) ==
    \/ dead # {}
    \/ LET responses == Responses(kind)
       IN  \E n \in DOMAIN responses : responses[n].kind = "Error"

\* the leaves after a command of the root: the debugger of each reached leaf ran it
LeavesAfter(kind) ==
    LET reached == Reached
    IN  [n \in Leaves |-> IF n \in reached
                          THEN [leaf[n] EXCEPT !.run = LeafDebugger(kind, n).run]
                          ELSE leaf[n]]

\* the nodes a command of the root reaches are all in their accept loop (the
\* command waits in the socket of a child that is not)
ReachedServing == \A n \in Reached \ {0} : leaf[n].pc = "serving"

NewLeaf ==
    [pc |-> "init", id |-> U64Zero, presp |-> NoResp, targ |-> NoUrl,
     join_to |-> NoUrl, jresp |-> NoResp, run |-> "None"]

Init ==
    /\ launch \in TreeLaunches
    /\ build_checks \in BOOLEAN
    /\ seen_children = set_root(EmptyMap, RootUrl)
    /\ poisoned = FALSE
    /\ launched = 0
    /\ children = [n \in 0..Len(launch) |-> <<>>]
    /\ leaf = [i \in Leaves |-> NewLeaf]
    /\ root = [pc |-> "waiting", op |-> "None", result |-> Ok(<<>>), faulty |-> FALSE]
    /\ dead = {}
    /\ refusing = {}
    /\ NoReducer
    /\ NoDriver
    /\ NoTools
    /\ dups = 0
    /\ pconn = <<>>
    /\ returned = <<>>
    /\ node_kind = "root"
    /\ nconn = <<>>
    /\ dbg_poisoned = FALSE
    /\ state_lock = 0
    /\ local_run = "None"

\* run_as_leaf: GdbClient::new(root) and the Pivot command of GdbClient::pivot.
\* The leaves start in launch order.
LeafSendPivot(i) ==
    /\ i = launched + 1
    /\ i \in Leaves
    /\ \/ \A j \in 1..(i - 1) : leaf[j].pc \in {"serving", "failed"}
       \/ /\ i \in EarlyLeaves
          /\ Cardinality({j \in Leaves : leaf[j].pc \notin {"init", "serving", "failed"}}) < Window
    /\ launched' = i
    /\ leaf' = [leaf EXCEPT ![i].pc = "pivot_sent"]
    /\ UNCHANGED <<seen_children, build_checks, poisoned, launch, children, root, dead, refusing>>
    /\ UNCHANGED <<pivotOnly, nodeOnly, reducerOnly, driverOnly, toolsOnly>>

\* The root handles the Pivot of leaf i and writes the response.  On a root
\* whose mutex is poisoned, and when pivot panics, the handler ends and the
\* connection is closed without a response.
RootHandlePivot(i) ==
    /\ i \in Leaves
    /\ leaf[i].pc = "pivot_sent"
    /\ IF poisoned
       THEN /\ leaf' = [leaf EXCEPT ![i].pc = "pivot_answered", ![i].presp = PanicResp]
            /\ UNCHANGED <<seen_children, poisoned>>
       ELSE \E o \in pivot(seen_children, launch[i], LeafUrl(i), build_checks) :
               IF o.kind = "panic"
               THEN /\ leaf' = [leaf EXCEPT ![i].pc = "pivot_answered", ![i].presp = PanicResp]
                    /\ poisoned' = TRUE
                    /\ seen_children' = o.reg
               ELSE /\ leaf' = [leaf EXCEPT ![i].pc = "pivot_answered", ![i].presp = o.resp]
                    /\ seen_children' = o.reg
                    /\ UNCHANGED poisoned
    /\ UNCHANGED <<build_checks, launch, launched, children, root, dead, refusing>>
    /\ UNCHANGED <<pivotOnly, nodeOnly, reducerOnly, driverOnly, toolsOnly>>

\* A run_as_leaf that goes on whatever GdbClient::pivot returned
LeafRecvPivotUnchecked(i) ==
    /\ i \in Leaves
    /\ leaf[i].pc = "pivot_answered"
    /\ leaf' = [leaf EXCEPT ![i].pc = "id_set", ![i].id = leaf[i].presp.id,
                            ![i].targ = leaf[i].presp.url]
    /\ UNCHANGED <<seen_children, build_checks, poisoned, launch, launched, children>>
    /\ UNCHANGED <<root, dead, refusing, pivotOnly, nodeOnly, reducerOnly, driverOnly, toolsOnly>>

\* run_as_leaf: GdbClient::pivot returns; on (id, targ) the leaf sets its id and
\* drops the connection to the root, on anything else run_as_leaf returns the error
LeafRecvPivot(i) ==
    /\ i \in Leaves
    /\ leaf[i].pc = "pivot_answered"
    /\ leaf' = IF leaf[i].presp.kind = "Pivot"
               THEN [leaf EXCEPT ![i].pc = "id_set", ![i].id = leaf[i].presp.id,
                                 ![i].targ = leaf[i].presp.url]
               ELSE [leaf EXCEPT ![i].pc = "failed"]
    /\ UNCHANGED <<seen_children, build_checks, poisoned, launch, launched, children>>
    /\ UNCHANGED <<root, dead, refusing, pivotOnly, nodeOnly, reducerOnly, driverOnly, toolsOnly>>

\* A leaf that joins the root whatever attacher the root named
LeafSendJoinToRoot(i) ==
    /\ i \in Leaves
    /\ leaf[i].pc = "id_set"
    /\ leaf' = [leaf EXCEPT ![i].pc = "join_sent", ![i].join_to = RootUrl]
    /\ UNCHANGED <<seen_children, build_checks, poisoned, launch, launched, children>>
    /\ UNCHANGED <<root, dead, refusing, pivotOnly, nodeOnly, reducerOnly, driverOnly, toolsOnly>>

\* run_as_leaf: GdbClient::new(targ) and the Join command of GdbClient::join
LeafSendJoin(i) ==
    /\ i \in Leaves
    /\ leaf[i].pc = "id_set"
    /\ leaf' = [leaf EXCEPT ![i].pc = "join_sent", ![i].join_to = leaf[i].targ]
    /\ UNCHANGED <<seen_children, build_checks, poisoned, launch, launched, children>>
    /\ UNCHANGED <<root, dead, refusing, pivotOnly, nodeOnly, reducerOnly, driverOnly, toolsOnly>>

\* The node the Join of leaf i was sent to handles it, once it is in its accept
\* loop: TreeState::join connects to the leaf's listener and pushes the
\* connection.  A root whose mutex is poisoned closes the connection instead.
HandleJoin(i) ==
    /\ i \in Leaves
    /\ leaf[i].pc = "join_sent"
    /\ LET a == NodeOf(leaf[i].join_to)
       IN  /\ (IF a = 0 THEN TRUE ELSE leaf[a].pc = "serving")
           /\ IF a = 0 /\ poisoned
              THEN /\ leaf' = [leaf EXCEPT ![i].pc = "join_answered", ![i].jresp = PanicResp]
                   /\ UNCHANGED children
              ELSE /\ leaf' = [leaf EXCEPT ![i].pc = "join_answered", ![i].jresp = RespOk]
                   /\ children' = [children EXCEPT ![a] = Append(@, LeafUrl(i))]
    /\ UNCHANGED <<seen_children, build_checks, poisoned, launch, launched>>
    /\ UNCHANGED <<root, dead, refusing, pivotOnly, nodeOnly, reducerOnly, driverOnly, toolsOnly>>

\* run_as_leaf: GdbClient::join returns; on Ok the leaf enters server.run(), on
\* an error run_as_leaf returns it
LeafRecvJoin(i) ==
    /\ i \in Leaves
    /\ leaf[i].pc = "join_answered"
    /\ leaf' = [leaf EXCEPT ![i].pc = IF resp_ok(leaf[i].jresp).ok THEN "serving" ELSE "failed"]
    /\ UNCHANGED <<seen_children, build_checks, poisoned, launch, launched, children>>
    /\ UNCHANGED <<root, dead, refusing, pivotOnly, nodeOnly, reducerOnly, driverOnly, toolsOnly>>

\* GdbMachine::tree_count on the root
tree_count_of(reg) == Cardinality(DOMAIN reg) - 1

\* A wait_for_child that stops waiting on the number of pivots alone
WaitForPivotsOnly(cnt, counted, child_count) ==
    IF cnt = child_count THEN "break" ELSE "sleep"

\* One turn of the loop of wait_for_child: cnt is the result of tree_count,
\* counted the result of the tree state's count, called when cnt is child_count
wait_for_child(cnt, counted, child_count) ==
    IF cnt = child_count
    THEN IF ~counted.ok THEN "error"
         ELSE IF counted.val = child_count THEN "break" ELSE "sleep"
    ELSE "sleep"

\* be_root_server: a turn of wait_for_child that ends the wait.  It panics on a
\* poisoned mutex.
RootPoll ==
    /\ root.pc = "waiting"
    /\ IF poisoned
       THEN root' = [root EXCEPT !.pc = "failed"]
       ELSE /\ ReachedServing
            /\ LET counted == RootCall("Count")
                   turn == wait_for_child(tree_count_of(seen_children), counted, Len(launch))
               IN  /\ turn # "sleep"
                   /\ root' = [root EXCEPT !.pc = IF turn = "break" THEN "ready" ELSE "failed",
                                           !.op = "Count", !.result = counted]
    /\ UNCHANGED <<seen_children, build_checks, poisoned, launch, launched, children>>
    /\ UNCHANGED <<leaf, dead, refusing, pivotOnly, nodeOnly, reducerOnly, driverOnly, toolsOnly>>

\* a call of the root debugger from run_in_snapshot_mode, followed by ?
RootOp(kind, next) ==
    /\ ReachedServing
    /\ LET res == RootCall(kind)
       IN  root' = [pc |-> IF res.ok THEN next ELSE "failed", op |-> kind,
                    result |-> res, faulty |-> Faulty(kind)]
    /\ leaf' = LeavesAfter(kind)
    /\ UNCHANGED <<seen_children, build_checks, poisoned, launch, launched, children>>
    /\ UNCHANGED <<dead, refusing, pivotOnly, nodeOnly, reducerOnly, driverOnly, toolsOnly>>

\* run_in_snapshot_mode: dbg.start()?
RootStart == root.pc = "ready" /\ RootOp("Start", "started")

\* run_in_snapshot_mode: a turn of the loop, dbg.all_running()? (a state() of
\* the tree) and interrupted(); the loop is left when a process is not running
\* or on an interrupt
RootAllRunning ==
    /\ root.pc = "started"
    /\ ReachedServing
    /\ LET res == RootCall("GetState")
           all_running == \A k \in DOMAIN res.val : res.val[k] = "Running"
       IN  \E interrupted \in BOOLEAN :
              root' = [pc |-> IF ~res.ok THEN "failed"
                              ELSE IF ~all_running \/ interrupted THEN "stopping"
                              ELSE "started",
                       op |-> "GetState", result |-> res, faulty |-> Faulty("GetState")]
    /\ UNCHANGED <<seen_children, build_checks, poisoned, launch, launched, children>>
    /\ UNCHANGED <<leaf, dead, refusing, pivotOnly, nodeOnly, reducerOnly, driverOnly, toolsOnly>>

\* run_in_snapshot_mode: dbg.stop()?
RootStop == root.pc = "stopping" /\ RootOp("Stop", "stopped")

\* run_in_snapshot_mode: dbg.snapshot()?
RootSnapshot == root.pc = "stopped" /\ RootOp("GetSnapshot", "snapshotted")

\* the debuggees that exit by themselves do so while the root polls
ProgramsExit ==
    /\ root.pc = "started"
    /\ {i \in Leaves : ExitsByItself(i) /\ leaf[i].run = "Running"} # {}
    /\ leaf' = [i \in Leaves |-> IF ExitsByItself(i) /\ leaf[i].run = "Running"
                                 THEN [leaf[i] EXCEPT !.run = "Exited"] ELSE leaf[i]]
    /\ UNCHANGED <<seen_children, build_checks, poisoned, launch, launched, children>>
    /\ UNCHANGED <<root, dead, refusing, pivotOnly, nodeOnly, reducerOnly, driverOnly, toolsOnly>>

\* the leaves that may fail: the first, the first seated below another leaf and
\* the last
FaultLeaves == {1, TREE_ARITY + 1, Len(launch)}

\* the process of leaf i dies once the tree is built
LeafDies(i) ==
    /\ i \in Leaves \cap FaultLeaves
    /\ root.pc \in {"ready", "started", "stopping", "stopped"}
    /\ i \notin dead
    /\ Cardinality(dead \cup refusing) < MaxFaults
    /\ dead' = dead \cup {i}
    /\ UNCHANGED <<seen_children, build_checks, poisoned, launch, launched, children>>
    /\ UNCHANGED <<leaf, root, refusing, pivotOnly, nodeOnly, reducerOnly, driverOnly, toolsOnly>>

\* the gdb of leaf i refuses the MI commands from now on
GdbRefuses(i) ==
    /\ i \in Leaves \cap FaultLeaves
    /\ root.pc \in {"ready", "started", "stopping", "stopped"}
    /\ i \notin refusing
    /\ Cardinality(dead \cup refusing) < MaxFaults
    /\ refusing' = refusing \cup {i}
    /\ UNCHANGED <<seen_children, build_checks, poisoned, launch, launched, children>>
    /\ UNCHANGED <<leaf, root, dead, pivotOnly, nodeOnly, reducerOnly, driverOnly, toolsOnly>>

Next ==
    \/ \E i \in LeafNumbers :
          \/ LeafSendPivot(i)
          \/ RootHandlePivot(i)
          \/ LeafRecvPivot(i)
          \/ LeafSendJoin(i)
          \/ HandleJoin(i)
          \/ LeafRecvJoin(i)
          \/ LeafDies(i)
          \/ GdbRefuses(i)
    \/ RootPoll
    \/ RootStart
    \/ RootAllRunning
    \/ RootStop
    \/ RootSnapshot
    \/ ProgramsExit

Spec == Init /\ [][Next]_vars

(***************************************************************************)
(* Claims about a job                                                      *)
(***************************************************************************)
\* the (leaf, thread) pairs that report an element list in a snapshot of the
\* tree: a debuggee that exited reports its placeholder thread 0
ReportedThreads ==
    UNION {{<<n, t>> : t \in (IF leaf[n].run = "Exited" THEN {0} ELSE DOMAIN ThreadsOf(n))} :
           n \in Leaves}

\* the element list of such a pair: the frames of the thread, after a State
\* element for the exit of a debuggee that exited (an interrupted one has none)
ReportedList(p) ==
    IF leaf[p[1]].run = "Exited"
    THEN <<StateElem("exited-normally", "", NoNumber),
           FrameElem("Process has exited (no stack)", "", NoNumber)>>
    ELSE [k \in DOMAIN ThreadsOf(p[1])[p[2]] |->
            FrameElem(ThreadsOf(p[1])[p[2]][k].func, ThreadsOf(p[1])[p[2]][k].fullname,
                      ThreadsOf(p[1])[p[2]][k].line)]

RECURSIVE TotalCount(_, _)
TotalCount(map, keys) ==
    IF keys = {} THEN 0
    ELSE LET h == CHOOSE x \in keys : TRUE
         IN  map[h][1] + TotalCount(map, keys \ {h})

\* C4: when the snapshot of a fully joined tree returned a component map, the map
\* has exactly one entry for each element list a thread of a leaf reported, with
\* the number of (leaf, thread) pairs that reported it as count, no other
\* entry, and the counts add up to the number of threads.
C4_SnapshotCountsEveryThread ==
    root.pc = "snapshotted"
    => LET map   == root.result.val
           lists == {ReportedList(p) : p \in ReportedThreads}
       IN  /\ \A l \in lists :
                 /\ Cardinality({h \in DOMAIN map : map[h][2] = l}) = 1
                 /\ \A h \in DOMAIN map :
                       map[h][2] = l
                       => map[h][1] = Cardinality({p \in ReportedThreads : ReportedList(p) = l})
           /\ \A h \in DOMAIN map : map[h][2] \in lists
           /\ TotalCount(map, DOMAIN map) = Cardinality(ReportedThreads)

\* C4's case: a tree with leaves below leaves was snapshotted and an element list
\* was reported by several threads
C4_Witness ==
    /\ root.pc = "snapshotted"
    /\ Len(launch) > TREE_ARITY
    /\ \E n \in Leaves : children[n] # <<>>
    /\ \E h \in DOMAIN root.result.val : root.result.val[h][1] >= 2

\* C6: a start, stop, state or snapshot of the root returns an error when a
\* process of the tree is dead or a node answered Error to the command; a
\* State the root returns holds the run state of every leaf under the leaf's
\* id, and a Snapshot it returns counts every thread of every leaf.
C6_ErrorsReachRootNothingOmitted ==
    /\ (root.op \in {"Start", "Stop", "GetState", "GetSnapshot"} /\ root.faulty)
          => ~root.result.ok
    /\ root.pc = "stopping"
          => \A i \in Leaves :
                leaf[i].run # "None"
                => /\ leaf[i].id \in DOMAIN root.result.val
                   /\ root.result.val[leaf[i].id] = leaf[i].run
    /\ root.pc = "snapshotted"
          => TotalCount(root.result.val, DOMAIN root.result.val) = Cardinality(ReportedThreads)

\* C9: a leaf whose Pivot was answered with (id, attacher) has that id and sends
\* its Join to that attacher, and to no other node, after it set the id; it
\* serves only after the Join was answered Ok, and its debugger runs no command
\* before; a leaf whose Pivot was not answered with a Pivot response sends no
\* Join and is on no children list.
C9_LeafHandshakeInOrder ==
    \A i \in Leaves :
        LET l == leaf[i]
        IN  /\ l.pc \in {"id_set", "join_sent", "join_answered", "serving"}
                  => /\ l.presp.kind = "Pivot"
                     /\ l.id = l.presp.id
                     /\ l.targ = l.presp.url
            /\ l.pc \in {"join_sent", "join_answered", "serving"} => l.join_to = l.presp.url
            /\ l.pc \in {"init", "pivot_sent", "pivot_answered", "id_set"}
                  => /\ l.join_to = NoUrl
                     /\ l.jresp.kind = "None"
            /\ l.pc = "serving" => l.jresp.kind = "Ok"
            /\ l.run # "None" => l.pc = "serving"
            /\ l.presp.kind \notin {"Pivot", "None"}
                  => /\ l.pc \in {"pivot_answered", "failed"}
                     /\ l.join_to = NoUrl
            /\ \A n \in DOMAIN children :
                  LeafUrl(i) \in Range(children[n])
                  => /\ l.presp.kind = "Pivot"
                     /\ n = NodeOf(l.presp.url)
                     /\ l.pc \in {"join_answered", "serving", "failed"}

\* C9's case: a leaf went through the handshake and serves below the root, and
\* another leaf, whose Pivot was answered with an Error, gave up
C9_Witness ==
    \E i, j \in Leaves :
        /\ leaf[i].pc = "failed"
        /\ leaf[i].presp.kind = "Error"
        /\ leaf[j].pc = "serving"
        /\ LeafUrl(j) \in Range(children[0])

\* C10: when be_root_server has returned (and from then on, start included), the
\* registry holds as many pivots as processes are expected and every leaf is on
\* the children list of the attacher its Pivot response named; the wait ended on
\* a Count of the tree that returned the expected number.
C10_StartAfterAllJoined ==
    /\ (root.pc \in {"ready", "started", "stopping", "stopped", "snapshotted"}
           \/ root.op \notin {"None", "Count"})
          => /\ tree_count_of(seen_children) = Len(launch)
             /\ \A i \in Leaves :
                   /\ leaf[i].presp.kind = "Pivot"
                   /\ LeafUrl(i) \in Range(children[NodeOf(leaf[i].presp.url)])
    /\ root.pc = "ready"
          => /\ root.op = "Count"
             /\ root.result.ok
             /\ root.result.val = Len(launch)

\* C10's case: the root of a job with leaves below leaves has issued start
C10_Witness ==
    /\ root.op = "Start"
    /\ root.pc = "started"
    /\ Len(launch) > TREE_ARITY
    /\ \E n \in Leaves : children[n] # <<>>

(***************************************************************************)
(* The reducers on their own.  Three nodes each hold a snapshot of their   *)
(* debuggee; each answers one command from it, and the three answers are   *)
(* combined in every way a tree of three nodes can combine them.           *)
(***************************************************************************)
\* the largest Count a node answers
MaxCount == 2

ReducedKinds == {"GetSnapshot", "Count", "GetState"}

\* a debuggee with two threads in the same place
TwinThreads ==
    [t \in {1, 2, 3} |->
        IF t = 3
        THEN <<DebugFrame("g", "main.c", 30), DebugFrame("main", "main.c", 10)>>
        ELSE <<DebugFrame("f", "main.c", 20), DebugFrame("main", "main.c", 10)>>]

\* the snapshots GdbMi::snapshot can hand to generate_components
SnapshotChoices ==
    {ProgramSnapshot(th, st) :
        th \in {ThreadsOf(0), ThreadsOf(1), TwinThreads},
        st \in {<<>>, <<StopSigint>>, <<StopSegv>>}}
        \cup {ProgramSnapshotExited(<<StopExited>>)}

\* the variables of the node and of the job
machineVars ==
    <<seen_children, build_checks, poisoned, launch, launched, children,
      pivotOnly, nodeOnly, treeOnly>>

\* no node and no job
NoMachine ==
    /\ launch = <<>>
    /\ build_checks = FALSE
    /\ seen_children = EmptyMap
    /\ poisoned = FALSE
    /\ launched = 0
    /\ children = <<>>
    /\ leaf = <<>>
    /\ root = <<>>
    /\ dead = {}
    /\ refusing = {}
    /\ dups = 0
    /\ pconn = <<>>
    /\ returned = <<>>
    /\ node_kind = "leaf"
    /\ nconn = <<>>
    /\ dbg_poisoned = FALSE
    /\ state_lock = 0
    /\ local_run = "None"

ReduceInit ==
    /\ snaps \in [1..3 -> SnapshotChoices]
    /\ reduced \in {[kind |-> k, local |-> <<>>, merged |-> <<>>] : k \in ReducedKinds}
    /\ NoDriver
    /\ NoTools
    /\ NoMachine

\* the run state the driver holds once it took snap
RunOf(snap) ==
    IF snap.stop_state = <<>> THEN "Running"
    ELSE IF snap.stop_state[1] = StopExited THEN "Exited" ELSE "Stopped"

\* do_cmd on the next node: its response to the command, from its snapshot
\* (GetSnapshot), its run state (GetState) or the count c of its subtree
LocalAnswer(c) ==
    LET k == Len(reduced.local) + 1
        resp == CASE reduced.kind = "GetSnapshot" ->
                        do_cmd("GetSnapshot",
                               Ok(generate_components([x \in {NodeId(k)} |-> snaps[k]])))
                  [] reduced.kind = "GetState" ->
                        do_cmd("GetState", Ok([x \in {NodeId(k)} |-> RunOf(snaps[k])]))
                  [] reduced.kind = "Count" -> do_cmd("Count", Ok(c))
    IN  /\ k <= 3
        /\ reduced.kind = "Count" \/ c = 1
        /\ reduced' = [reduced EXCEPT !.local = Append(@, resp)]
        /\ UNCHANGED <<machineVars, snaps, driverOnly, toolsOnly>>

\* the ways three nodes combine their answers A, B, C: a chain of nodes, each
\* merging its own answer with that of its subtree (merge_results), or one node
\* reducing the answers of three children in the order of its children list
Groupings == <<"(AB)C", "A(BC)", "(CA)B", "children ABC", "children CBA">>

Combined(g, kind, l) ==
    CASE g = "(AB)C" -> merge_results(merge_results(l[1], l[2]), l[3])
      [] g = "A(BC)" -> merge_results(l[1], merge_results(l[2], l[3]))
      [] g = "(CA)B" -> merge_results(merge_results(l[3], l[1]), l[2])
      [] g = "children ABC" ->
            do_cmd(kind, TreeStateCall(kind, <<Ok(l[1]), Ok(l[2]), Ok(l[3])>>))
      [] g = "children CBA" ->
            do_cmd(kind, TreeStateCall(kind, <<Ok(l[3]), Ok(l[2]), Ok(l[1])>>))

\* the three answers are combined in the next way
Combine ==
    /\ Len(reduced.local) = 3
    /\ Len(reduced.merged) < Len(Groupings)
    /\ reduced' = [reduced EXCEPT !.merged =
                      Append(@, Combined(Groupings[Len(@) + 1], reduced.kind, reduced.local))]
    /\ UNCHANGED <<machineVars, snaps, driverOnly, toolsOnly>>

ReduceNext ==
    \/ \E c \in 1..MaxCount : LocalAnswer(c)
    \/ Combine

SpecReduce == ReduceInit /\ [][ReduceNext]_vars

(***************************************************************************)
(* Claims about the reducers                                               *)
(***************************************************************************)
\* what a response holds, a component map read as its (hash, count) pairs
Content(resp) ==
    IF resp.kind = "Snapshot"
    THEN [kind |-> "Snapshot", val |-> {<<h, resp.val[h][1]>> : h \in DOMAIN resp.val}]
    ELSE [kind |-> resp.kind, val |-> resp.val]

\* C17: however the answers A, B, C of three nodes are grouped and ordered,
\* (AB)C, A(BC), (CA)B or the children of one node in either order, the
\* component maps merged hold the same (hash, count) pairs, the Counts add up to
\* the same sum and the State maps, whose ids are disjoint, to the same union.
C17_MergeOrderIrrelevant ==
    /\ \A i, j \in DOMAIN reduced.merged :
            Content(reduced.merged[i]) = Content(reduced.merged[j])
    /\ \A i \in DOMAIN reduced.merged :
            /\ reduced.kind = "GetSnapshot" =>
                    /\ reduced.merged[i].kind = "Snapshot"
                    /\ DOMAIN reduced.merged[i].val =
                            UNION {DOMAIN reduced.local[k].val : k \in 1..3}
            /\ reduced.kind = "Count" =>
                    reduced.merged[i] =
                        RespCount(reduced.local[1].val + reduced.local[2].val
                                    + reduced.local[3].val)
            /\ reduced.kind = "GetState" =>
                    /\ reduced.merged[i].kind = "State"
                    /\ DOMAIN reduced.merged[i].val = {NodeId(k) : k \in 1..3}
                    /\ \A k \in 1..3 :
                            reduced.merged[i].val[NodeId(k)] = reduced.local[k].val[NodeId(k)]

\* three different component maps with a hash in common were merged in all the ways
C17_Witness ==
    /\ reduced.kind = "GetSnapshot"
    /\ Len(reduced.merged) = Len(Groupings)
    /\ \A k \in 1..3 : reduced.local[k].kind = "Snapshot"
    /\ \E h \in DOMAIN reduced.local[1].val :
            /\ h \in DOMAIN reduced.local[2].val
            /\ h \in DOMAIN reduced.local[3].val
            /\ reduced.local[1].val[h][1] # reduced.local[2].val[h][1]
            /\ reduced.merged[1].val[h][1] =
                    reduced.local[1].val[h][1] + reduced.local[2].val[h][1]
                        + reduced.local[3].val[h][1]
    /\ reduced.local[2].val # reduced.local[3].val

\* the element list the claim describes for thread th of snap
ExpectedList(snap, th) ==
    (IF snap.stop_state # <<>> /\ snap.stop_state[1].signal_name # "SIGINT"
     THEN <<[tag |-> "State", func |-> "", file |-> "", line |-> NoNumber,
             reason |-> snap.stop_state[1].reason,
             signal_name |-> snap.stop_state[1].signal_name,
             exit_code |-> snap.stop_state[1].exit_code]>>
     ELSE <<>>)
        \o [i \in DOMAIN snap.state[th] |->
                [tag |-> "Frame", func |-> snap.state[th][i].func,
                 file |-> snap.state[th][i].fullname, line |-> snap.state[th][i].line,
                 reason |-> "", signal_name |-> "", exit_code |-> NoNumber]]

\* C18: the map a node generates from its snapshot has one entry per distinct
\* element list of the snapshot's threads, counted by the threads that produce
\* it; a thread's list is its frames in order, after a State element of the stop
\* reason exactly when there is a stop reason whose signal is not SIGINT.
C18_ComponentsOfSnapshot ==
    reduced.kind = "GetSnapshot" =>
        \A k \in DOMAIN reduced.local :
            LET snap == snaps[k]
                map == reduced.local[k].val
                lists == {ExpectedList(snap, th) : th \in DOMAIN snap.state}
            IN  /\ reduced.local[k].kind = "Snapshot"
                /\ Cardinality(DOMAIN map) = Cardinality(lists)
                /\ {map[h][2] : h \in DOMAIN map} = lists
                /\ \A h \in DOMAIN map :
                        map[h][1] = Cardinality({th \in DOMAIN snap.state :
                                                    ExpectedList(snap, th) = map[h][2]})
                /\ snap.stop_state = <<StopSegv>> =>
                        \A h \in DOMAIN map :
                            /\ map[h][2][1].tag = "State"
                            /\ map[h][2][1].reason = "signal-received"
                            /\ map[h][2][1].signal_name = "SIGSEGV"
                            /\ map[h][2][2].tag = "Frame"
                /\ snap.stop_state = <<StopSigint>> =>
                        \A h \in DOMAIN map : \A i \in DOMAIN map[h][2] :
                            map[h][2][i].tag = "Frame"

\* a SIGSEGV stop with two threads in the same place, a SIGINT stop and a
\* snapshot without a stop reason were turned into components
C18_Witness ==
    /\ reduced.kind = "GetSnapshot"
    /\ Len(reduced.local) = 3
    /\ snaps[1] = ProgramSnapshot(TwinThreads, <<StopSegv>>)
    /\ snaps[2] = ProgramSnapshot(ThreadsOf(1), <<StopSigint>>)
    /\ snaps[3].stop_state = <<>>
    /\ \E h \in DOMAIN reduced.local[1].val : reduced.local[1].val[h][1] = 2

(***************************************************************************)
(* gdbmi.rs: the MI driver of one leaf, its gdb and its debuggee.  The     *)
(* caller of the Debugger methods, the thread reading gdb's output         *)
(* (thread_loop) and gdb itself run concurrently; GdbMiState is behind one *)
(* mutex, taken for each read and each write.                              *)
(***************************************************************************)
\* how many Debugger methods the caller calls
MaxCalls == 3

\* the threads of the debuggee and their frames
Debuggee == ThreadsOf(1)

\* RunState::Running and RunState::Stopped(stop)
RunStateRunning == [tag |-> "Running", stop |-> <<>>]

RunStateStopped(stop) == [tag |-> "Stopped", stop |-> <<stop>>]

\* StopReason::new on the fields <<reason, signal-name, exit-code>> of a record
StopReasonNew(fields) == StopReason(fields[1], fields[2], fields[3])

\* A test that takes every reason beginning with exited for an exit
ExitedBySignalToo(stop) == stop.reason \in {"exited", "exited-normally", "exited-signalled"}

\* StopReason::exited
exited(stop) == stop.reason \in {"exited", "exited-normally"}

\* Debugger::id_is_running, id_is_stopped and id_is_exited on the map of
\* GdbMi::state, which holds the run state rs of the driver when it is Some
id_is_running(rs) == rs # <<>> /\ rs[1].tag = "Running"

id_is_stopped(rs) == rs # <<>> /\ rs[1].tag = "Stopped"

id_is_exited(rs) == rs # <<>> /\ rs[1].tag = "Stopped" /\ exited(rs[1].stop[1])

\* GdbMiState::get_stop_state
get_stop_state(rs) == IF rs # <<>> /\ rs[1].tag = "Stopped" THEN rs[1].stop ELSE <<>>

\* a line of gdb's output: a result record token^class,val or an exec record
\* *class,val
Line(mark, token, class, val) ==
    [mark |-> mark, token |-> token, class |-> class, val |-> val]

\* GdbMiCommandResponse::new
GdbMiCommandResponse(line) ==
    IF line.class = "error" THEN [tag |-> "Error", val |-> line.val]
    ELSE IF line.class \in {"done", "running"} THEN [tag |-> "Done", val |-> line.val]
    ELSE [tag |-> "ParseError", val |-> line.val]

\* RunState::new_from_gdb
new_from_gdb(line) ==
    IF line.class = "running" THEN RunStateRunning
    ELSE RunStateStopped(StopReasonNew(line.val))

\* A command that takes every response but an error for a success
CommandLenient(resp) ==
    IF resp.tag = "Error" THEN Err(<<Part("Command returned an error", resp.val)>>)
    ELSE Ok(resp.val)

\* GdbMiState::command: the result of the response resp
command(resp) ==
    CASE resp.tag = "Done" -> Ok(resp.val)
      [] resp.tag = "Error" -> Err(<<Part("Command returned an error", resp.val)>>)
      [] resp.tag = "ParseError" -> Err(<<Part("Failed to parse response", resp.val)>>)

IdleCall ==
    [op |-> "none", pc |-> "idle", cmd |-> "", arg |-> 0, token |-> 0, calls |-> 0,
     ran |-> FALSE, threads |-> <<>>, state |-> EmptyMap, snap |-> ProgramSnapshot(EmptyMap, <<>>),
     result |-> Ok(<<>>)]

\* GdbMi::run: gdb is spawned with the program loaded and not started, the
\* reading thread runs, and the two commands of run were answered
MiInit ==
    /\ mi = [response_id |-> 2, resps |-> EmptyMap, runstate |-> <<>>, reader |-> "reading",
             gdblog |-> <<>>, echoed |-> <<>>]
    /\ gdb = [target |-> "loaded", stop |-> <<>>, sigint |-> FALSE, selected |-> 1,
              stdin |-> <<>>, stdout |-> <<>>, eof |-> FALSE]
    /\ call = IdleCall
    /\ NoReducer
    /\ NoMachine
    /\ NoTools

\* the caller calls a Debugger method
CallBegin(op) ==
    /\ call.pc = "idle"
    /\ call.calls < MaxCalls
    /\ call' = [IdleCall EXCEPT !.op = op, !.pc = "entry", !.calls = call.calls + 1]
    /\ UNCHANGED <<mi, gdb, machineVars, reducerOnly, toolsOnly>>

\* the method returns res
Return(res) == [call EXCEPT !.pc = "idle", !.result = res]

\* the method goes on to GdbMiState::command(cmd)
Command_(cmd, arg) == [call EXCEPT !.pc = "send", !.cmd = cmd, !.arg = arg]

\* GdbMi::start
start ==
    /\ call.op = "start" /\ call.pc = "entry"
    /\ call' = Command_("-exec-run", 0)
    /\ UNCHANGED <<mi, gdb, machineVars, reducerOnly, toolsOnly>>

\* A stop that interrupts whatever the run state is
StopWithoutCheck ==
    /\ \/ call.op = "stop" /\ call.pc = "entry"
       \/ call.op = "snapshot" /\ call.pc = "stop"
    /\ call' = Command_("-exec-interrupt --all", 0)
    /\ UNCHANGED <<mi, gdb, machineVars, reducerOnly, toolsOnly>>

\* GdbMi::stop, called by the caller or by GdbMi::snapshot
stop ==
    /\ \/ call.op = "stop" /\ call.pc = "entry"
       \/ call.op = "snapshot" /\ call.pc = "stop"
    /\ call' = IF id_is_stopped(mi.runstate)
               THEN IF call.op = "stop" THEN Return(Ok(<<>>))
                    ELSE [call EXCEPT !.pc = "exited?"]
               ELSE Command_("-exec-interrupt --all", 0)
    /\ UNCHANGED <<mi, gdb, machineVars, reducerOnly, toolsOnly>>

\* GdbMi::cmd, which runs any MI command: here the one that ends gdb
cmd ==
    /\ call.op = "cmd" /\ call.pc = "entry"
    /\ call' = Command_("-gdb-exit", 0)
    /\ UNCHANGED <<mi, gdb, machineVars, reducerOnly, toolsOnly>>

\* GdbMi::cont
cont ==
    /\ call.op = "cont" /\ call.pc = "entry"
    /\ call' = IF id_is_running(mi.runstate)
               THEN Return(Ok(<<>>))
               ELSE Command_("-exec-continue", 0)
    /\ UNCHANGED <<mi, gdb, machineVars, reducerOnly, toolsOnly>>

\* GdbMi::symbols
symbols ==
    /\ call.op = "symbols" /\ call.pc = "entry"
    /\ call' = IF id_is_running(mi.runstate)
               THEN Return(Err(<<Part("Symbols can only be retrieved on a stopped target", <<>>)>>))
               ELSE Command_("-symbol-info-functions --include-nondebug", 0)
    /\ UNCHANGED <<mi, gdb, machineVars, reducerOnly, toolsOnly>>

\* GdbMi::snapshot, its first test; ran keeps the branch taken
snapshot ==
    /\ call.op = "snapshot" /\ call.pc = "entry"
    /\ call' = IF id_is_running(mi.runstate)
               THEN [call EXCEPT !.pc = "stop", !.ran = TRUE]
               ELSE [call EXCEPT !.pc = "exited?"]
    /\ UNCHANGED <<mi, gdb, machineVars, reducerOnly, toolsOnly>>

\* GdbMi::snapshot after the stop: an exited program gives the exited snapshot,
\* any other goes to GdbMiState::snapshot, which lists the threads first
SnapshotExited ==
    /\ call.op = "snapshot" /\ call.pc = "exited?"
    /\ call' = IF id_is_exited(mi.runstate)
               THEN LET snap == ProgramSnapshotExited(get_stop_state(mi.runstate))
                    IN  [Return(Ok(generate_components([x \in {NodeId(0)} |-> snap])))
                            EXCEPT !.snap = snap]
               ELSE Command_("-thread-list-ids", 0)
    /\ UNCHANGED <<mi, gdb, machineVars, reducerOnly, toolsOnly>>

\* GdbMiState::_send_command
_send_command ==
    /\ call.pc = "send"
    /\ mi' = [mi EXCEPT !.response_id = @ + 1]
    /\ IF gdb.eof
       THEN \* write_all fails on the closed pipe, after the increment
            /\ call' = Return(Err(<<Part("Broken pipe", <<>>)>>))
            /\ gdb' = gdb
       ELSE /\ gdb' = [gdb EXCEPT !.stdin =
                         Append(@, [token |-> mi.response_id, cmd |-> call.cmd,
                                    arg |-> call.arg])]
            /\ call' = [call EXCEPT !.pc = "await", !.token = mi.response_id]
    /\ UNCHANGED <<machineVars, reducerOnly, toolsOnly>>

\* the threads of GdbMiState::snapshot's loop that are left after the first
NextThread(c) ==
    IF Len(c.threads) > 1
    THEN [c EXCEPT !.pc = "send", !.cmd = "-thread-select", !.arg = c.threads[2],
                   !.threads = Tail(@)]
    ELSE [c EXCEPT !.pc = "finish", !.threads = <<>>]

\* what the method does with the result res of GdbMiState::command
AfterCommand(res) ==
    IF call.op = "cmd" THEN Return(res)
    ELSE IF call.op # "snapshot" THEN Return(IF res.ok THEN Ok(<<>>) ELSE res)
    ELSE IF ~res.ok THEN Return(res)
    ELSE CASE call.cmd = "-exec-interrupt --all" -> [call EXCEPT !.pc = "exited?"]
           [] call.cmd = "-thread-list-ids" ->
                IF res.val = <<>> THEN [call EXCEPT !.pc = "finish"]
                ELSE [call EXCEPT !.pc = "send", !.cmd = "-thread-select",
                                  !.arg = res.val[1], !.threads = res.val]
           [] call.cmd = "-thread-select" ->
                [call EXCEPT !.pc = "send", !.cmd = "-stack-list-frames 0 1000", !.arg = 0]
           [] call.cmd = "-stack-list-frames 0 1000" ->
                NextThread([call EXCEPT !.state = MapInsert(@, call.threads[1], res.val)])

\* GdbMiState::await_response, once the response with the token is there
\* A wait that reads the response and leaves it in the table
AwaitWithoutRemove ==
    /\ call.pc = "await"
    /\ call.token \in DOMAIN mi.resps
    /\ call' = AfterCommand(command(mi.resps[call.token]))
    /\ UNCHANGED <<mi, gdb, machineVars, reducerOnly, toolsOnly>>

await_response ==
    /\ call.pc = "await"
    /\ call.token \in DOMAIN mi.resps
    /\ mi' = [mi EXCEPT !.resps = [t \in DOMAIN @ \ {call.token} |-> @[t]]]
    /\ call' = AfterCommand(command(mi.resps[call.token]))
    /\ UNCHANGED <<gdb, machineVars, reducerOnly, toolsOnly>>

\* the end of GdbMiState::snapshot and of GdbMi::snapshot
SnapshotFinish ==
    /\ call.op = "snapshot" /\ call.pc = "finish"
    /\ LET snap == ProgramSnapshot(call.state, get_stop_state(mi.runstate))
       IN  call' = [Return(Ok(generate_components([x \in {NodeId(0)} |-> snap])))
                        EXCEPT !.snap = snap]
    /\ UNCHANGED <<mi, gdb, machineVars, reducerOnly, toolsOnly>>

\* A reader that empties the log when the run state changes
ThreadLoopLineClearingLog(m, line) ==
    CASE line.mark = "~" -> [m EXCEPT !.gdblog = Append(@, line.val)]
      [] line.mark = "^" ->
            [m EXCEPT !.resps = MapInsert(@, line.token, GdbMiCommandResponse(line))]
      [] line.mark = "*" -> [m EXCEPT !.runstate = <<new_from_gdb(line)>>, !.gdblog = <<>>]
      [] line.mark \in {"=", "&", "(gdb)", "esc"} -> m
      [] OTHER -> [m EXCEPT !.echoed = Append(@, line)]

\* The body of thread_loop's loop: the driver state m after the line.  A line
\* is a console line (~), a result record (token^), an exec record (*), a
\* notification (=), a log line (&), the prompt, a line that begins with the
\* escape sequence ESC[H, or anything else, which is printed.  gdblog is the
\* log buffer, echoed what the reader printed.
thread_loop_line(m, line) ==
    CASE line.mark = "~" -> [m EXCEPT !.gdblog = Append(@, line.val)]
      [] line.mark = "^" ->
            [m EXCEPT !.resps = MapInsert(@, line.token, GdbMiCommandResponse(line))]
      [] line.mark = "*" -> [m EXCEPT !.runstate = <<new_from_gdb(line)>>]
      [] line.mark \in {"=", "&", "(gdb)", "esc"} -> m
      [] OTHER -> [m EXCEPT !.echoed = Append(@, line)]

\* GdbMiState::isrunning: the running field is never cleared
isrunning == ~id_is_exited(mi.runstate)

\* GdbMiState::thread_loop: one turn of the loop.  The loop ends when isrunning
\* is false; otherwise read_line gives the next line of gdb's output, or at
\* the end of the stream the empty line, which is printed, and the loop goes on.
thread_loop ==
    /\ mi.reader # "ended"
    /\ IF ~isrunning
       THEN /\ mi' = [mi EXCEPT !.reader = "ended"]
            /\ gdb' = gdb
       ELSE IF gdb.stdout # <<>>
       THEN /\ mi' = thread_loop_line(mi, Head(gdb.stdout))
            /\ gdb' = [gdb EXCEPT !.stdout = Tail(@)]
       ELSE /\ gdb.eof
            /\ mi' = [mi EXCEPT !.reader = "spinning"]
            /\ gdb' = gdb
    /\ UNCHANGED <<call, machineVars, reducerOnly, toolsOnly>>

\* the fields of the *stopped record of a stop
SigintRecord == <<"signal-received", "SIGINT", NoNumber>>

SigsegvRecord == <<"signal-received", "SIGSEGV", NoNumber>>

ExitRecords ==
    {<<"exited-normally", "", NoNumber>>, <<"exited", "", 1>>,
     <<"exited-signalled", "SIGKILL", NoNumber>>}

\* gdb after the lines out
Wrote(g, out) == [g EXCEPT !.stdin = Tail(@), !.stdout = @ \o out]

\* the debuggee of g stops with the record fields
Stopped(g, how, fields) ==
    [g EXCEPT !.target = how, !.stop = <<fields>>, !.sigint = FALSE,
              !.stdout = Append(@, Line("*", 0, "stopped", fields))]

\* gdb executes the next command of its input.  -exec-interrupt is answered at
\* once; the debuggee stops on the SIGINT before or after the answer (prompt).
\* Where gdb's answer depends on its version the command is answered either way.
GdbExecute(prompt, class) ==
    /\ ~gdb.eof
    /\ gdb.stdin # <<>>
    /\ LET c == Head(gdb.stdin)
           done(val) == <<Line("^", c.token, "done", val)>>
           error == <<Line("^", c.token, "error", <<"msg">>)>>
           run == <<Line("^", c.token, "running", <<>>), Line("*", 0, "running", <<>>)>>
           live == gdb.target \in {"running", "stopped"}
       IN  gdb' =
             CASE c.cmd = "-exec-run" ->
                    IF gdb.target \in {"loaded", "exited"}
                    THEN Wrote([gdb EXCEPT !.target = "running", !.stop = <<>>], run)
                    ELSE Wrote(gdb, error)
               [] c.cmd = "-exec-continue" ->
                    IF gdb.target = "stopped"
                    THEN Wrote([gdb EXCEPT !.target = "running", !.stop = <<>>], run)
                    ELSE Wrote(gdb, error)
               [] c.cmd = "-exec-interrupt --all" ->
                    IF gdb.target = "running"
                    THEN IF prompt
                         THEN Wrote(Stopped(gdb, "stopped", SigintRecord), done(<<>>))
                         ELSE Wrote([gdb EXCEPT !.sigint = TRUE], done(<<>>))
                    ELSE Wrote(gdb, IF class = "done" THEN done(<<>>) ELSE error)
               [] c.cmd = "-symbol-info-functions --include-nondebug" ->
                    Wrote(gdb, done(<<>>))
               [] c.cmd = "-thread-list-ids" ->
                    Wrote(gdb, done(IF live THEN <<1, 2>> ELSE <<>>))
               [] c.cmd = "-thread-select" ->
                    IF gdb.target = "stopped" \/ (gdb.target = "running" /\ class = "done")
                    THEN Wrote([gdb EXCEPT !.selected = c.arg], done(<<>>))
                    ELSE Wrote(gdb, error)
               [] c.cmd = "-stack-list-frames 0 1000" ->
                    IF gdb.target = "stopped"
                    THEN Wrote(gdb, done(Debuggee[gdb.selected]))
                    ELSE Wrote(gdb, error)
               [] c.cmd = "-gdb-exit" ->
                    \* gdb answers ^exit and ends
                    Wrote([gdb EXCEPT !.eof = TRUE, !.target = "gone", !.sigint = FALSE],
                          <<Line("^", c.token, "exit", <<>>)>>)
    /\ UNCHANGED <<mi, call, machineVars, reducerOnly, toolsOnly>>

\* the SIGINT of an interrupt stops the debuggee
TargetStops ==
    /\ gdb.target = "running" /\ gdb.sigint
    /\ gdb' = Stopped(gdb, "stopped", SigintRecord)
    /\ UNCHANGED <<mi, call, machineVars, reducerOnly, toolsOnly>>

\* the debuggee crashes
TargetCrashes ==
    /\ gdb.target = "running"
    /\ gdb' = Stopped(gdb, "stopped", SigsegvRecord)
    /\ UNCHANGED <<mi, call, machineVars, reducerOnly, toolsOnly>>

\* the debuggee exits, by itself with code 0 or 1 or killed by a signal
TargetExits(fields) ==
    /\ gdb.target = "running"
    /\ gdb' = Stopped(gdb, "exited", fields)
    /\ UNCHANGED <<mi, call, machineVars, reducerOnly, toolsOnly>>

\* gdb ends (killed, or crashed): its side of the pipes is closed, and what it
\* wrote before can still be read
GdbDies ==
    /\ ~gdb.eof
    /\ gdb' = [gdb EXCEPT !.eof = TRUE, !.target = "gone", !.sigint = FALSE]
    /\ UNCHANGED <<mi, call, machineVars, reducerOnly, toolsOnly>>

MiNext ==
    \/ \E op \in {"start", "stop", "cont", "snapshot", "symbols", "cmd"} : CallBegin(op)
    \/ start
    \/ cmd
    \/ symbols
    \/ stop
    \/ cont
    \/ snapshot
    \/ SnapshotExited
    \/ _send_command
    \/ await_response
    \/ SnapshotFinish
    \/ thread_loop
    \/ \E prompt \in BOOLEAN, class \in {"done", "error"} : GdbExecute(prompt, class)
    \/ TargetStops
    \/ TargetCrashes
    \/ \E fields \in ExitRecords : TargetExits(fields)
    \/ GdbDies

SpecMi == MiInit /\ [][MiNext]_vars

\* The reader thread and the caller's wait are loops of running threads: each
\* takes its next turn whenever it has one.
FairSpecMi == SpecMi /\ WF_vars(thread_loop) /\ WF_vars(await_response)

(***************************************************************************)
(* The reader on its own: gdb has written some lines, of every kind, and   *)
(* the reader takes them one by one.                                       *)
(***************************************************************************)
\* how many lines gdb has written
MaxLines == 3

\* the lines gdb writes: console and log lines, notifications, the prompt, a
\* line beginning with ESC[H, a line of the debuggee, result records of every
\* class (exit is a class the driver does not know) and exec records
OutputLines ==
    {Line("~", 0, "", <<"console">>), Line("=", 0, "thread-created", <<>>),
     Line("&", 0, "", <<"log">>), Line("(gdb)", 0, "", <<>>), Line("esc", 0, "", <<>>),
     Line("other", 0, "", <<"hello">>),
     Line("^", 7, "done", <<"value">>), Line("^", 8, "error", <<"msg">>),
     Line("^", 8, "running", <<>>), Line("^", 9, "exit", <<>>),
     Line("*", 0, "running", <<>>), Line("*", 0, "stopped", SigintRecord),
     Line("*", 0, "stopped", <<"exited", "", 1>>)}

ReaderInit ==
    /\ mi = [response_id |-> 10, resps |-> EmptyMap, runstate |-> <<>>, reader |-> "reading",
             gdblog |-> <<>>, echoed |-> <<>>]
    /\ gdb \in {[target |-> "loaded", stop |-> <<>>, sigint |-> FALSE, selected |-> 1,
                 stdin |-> <<>>, stdout |-> out, eof |-> FALSE] :
                    out \in UNION {[1..n -> OutputLines] : n \in 1..MaxLines}}
    /\ call = IdleCall
    /\ NoReducer
    /\ NoMachine
    /\ NoTools

SpecReader == ReaderInit /\ [][thread_loop]_vars

(***************************************************************************)
(* Claims about the MI driver                                              *)
(***************************************************************************)
\* the driver holds the run state tag
RunStateIs(tag) == mi.runstate # <<>> /\ mi.runstate[1].tag = tag

\* C19: stop() finding the run state Stopped and cont() finding it Running
\* return Ok with the token counter, the table of responses and gdb's input as
\* they were (the stop inside snapshot() goes on without a command as well), and
\* the step in which stop() or cont() tests the run state writes no command.
C19_NoCommandWhenAlreadyThere ==
    [][ /\ (call.op = "stop" /\ call.pc = "entry" /\ RunStateIs("Stopped") /\ call' # call)
            => /\ call'.pc = "idle" /\ call'.result = Ok(<<>>)
               /\ mi' = mi /\ gdb'.stdin = gdb.stdin
        /\ (call.op = "cont" /\ call.pc = "entry" /\ RunStateIs("Running") /\ call' # call)
            => /\ call'.pc = "idle" /\ call'.result = Ok(<<>>)
               /\ mi' = mi /\ gdb'.stdin = gdb.stdin
        /\ (call.op = "snapshot" /\ call.pc = "stop" /\ RunStateIs("Stopped") /\ call' # call)
            => /\ call'.pc = "exited?"
               /\ mi' = mi /\ gdb'.stdin = gdb.stdin
        /\ (call.op \in {"stop", "cont"} /\ call.pc = "entry")
            => /\ mi'.response_id = mi.response_id
               /\ Len(gdb'.stdin) <= Len(gdb.stdin)
      ]_vars

\* three calls wrote one command: the stop() that just returned Ok found the
\* debuggee stopped and wrote none
C19_Witness ==
    /\ call.op = "stop" /\ call.pc = "idle" /\ call.calls = MaxCalls
    /\ call.result = Ok(<<>>)
    /\ call.token = 0
    /\ mi.response_id = 3
    /\ RunStateIs("Stopped")
    /\ gdb.stdin = <<>>

\* C20: a snapshot() that found the debuggee running writes -thread-list-ids,
\* -thread-select and -stack-list-frames only while the driver's run state is
\* Stopped, and the snapshot it returns carries the stop reason of the stop
\* gdb reported last.
C20_SnapshotAfterStop ==
    [][ call.op = "snapshot" /\ call.ran =>
            /\ (call.pc = "send" /\ call'.pc = "await"
                    /\ call.cmd \in {"-thread-list-ids", "-thread-select",
                                     "-stack-list-frames 0 1000"})
                => RunStateIs("Stopped")
            /\ (call.pc # "idle" /\ call'.pc = "idle" /\ call'.result.ok)
                => /\ call'.snap.stop_state # <<>>
                   /\ gdb.stop # <<>>
                   /\ call'.snap.stop_state = <<StopReasonNew(gdb.stop[1])>>
      ]_vars

\* C21: symbols() returns an error and writes no command whenever the driver's
\* run state is not Stopped (Running, or none observed yet); when it is Stopped
\* it writes the symbols query, and the call returns Ok once gdb answered.
C21_SymbolsOnlyWhenStopped ==
    [][ call.op = "symbols" =>
            /\ (call.pc = "entry" /\ call' # call) =>
                    IF RunStateIs("Stopped")
                    THEN /\ call'.pc = "send"
                         /\ call'.cmd = "-symbol-info-functions --include-nondebug"
                    ELSE /\ call'.pc = "idle" /\ ~call'.result.ok
                         /\ mi' = mi /\ gdb'.stdin = gdb.stdin
            /\ (call.pc = "send" /\ call'.pc = "await") => RunStateIs("Stopped")
            /\ (call.pc = "await" /\ call'.pc = "idle" /\ RunStateIs("Stopped"))
                    => call'.result.ok
      ]_vars

\* the driver's run state is Stopped on an exit of the program
ExitObserved ==
    /\ RunStateIs("Stopped")
    /\ mi.runstate[1].stop[1].reason \in {"exited", "exited-normally"}

\* the components of the exited snapshot with stop reason why: one entry of
\* count 1, the State element of the reason before the placeholder frame
ExitedComponents(map, why) ==
    /\ Cardinality(DOMAIN map) = 1
    /\ \A h \in DOMAIN map :
          /\ map[h][1] = 1
          /\ map[h][2] =
                <<[tag |-> "State", func |-> "", file |-> "", line |-> NoNumber,
                   reason |-> why.reason, signal_name |-> why.signal_name,
                   exit_code |-> why.exit_code],
                  [tag |-> "Frame", func |-> "Process has exited (no stack)", file |-> "",
                   line |-> NoNumber, reason |-> "", signal_name |-> "",
                   exit_code |-> NoNumber]>>

InFlight(t) ==
    Cardinality({i \in DOMAIN gdb.stdin : gdb.stdin[i].token = t})
    + Cardinality({i \in DOMAIN gdb.stdout :
                      gdb.stdout[i].mark = "^" /\ gdb.stdout[i].token = t})
    + (IF t \in DOMAIN mi.resps THEN 1 ELSE 0)

\* every token in use is below the next one, and only the token of the call
\* that is waiting is on its way, once
TokensInUse ==
    /\ \A i \in DOMAIN gdb.stdin : gdb.stdin[i].token < mi.response_id
    /\ \A i \in DOMAIN gdb.stdout :
          gdb.stdout[i].mark = "^" => gdb.stdout[i].token < mi.response_id
    /\ \A t \in DOMAIN mi.resps : t < mi.response_id
    /\ \A t \in 0 .. mi.response_id :
          IF call.pc = "await" /\ call.token = t THEN InFlight(t) = 1 ELSE InFlight(t) = 0

\* C23: the tokens the driver writes are the successive values of response_id,
\* so distinct and increasing in the order of writing; the reader inserts a
\* response under the token of its line; a call returns the response stored
\* under the token it wrote and removes it, so no response is returned twice
\* and the table does not hold the token after the return.
C23_TokensPairResponses ==
    /\ []TokensInUse
    /\ [][ /\ mi'.response_id >= mi.response_id
           /\ gdb'.stdin # gdb.stdin /\ Len(gdb'.stdin) > Len(gdb.stdin) =>
                 /\ gdb'.stdin[Len(gdb'.stdin)].token = mi.response_id
                 /\ mi'.response_id = mi.response_id + 1
                 /\ call'.token = mi.response_id
           /\ (mi'.resps # mi.resps /\ DOMAIN mi.resps \subseteq DOMAIN mi'.resps) =>
                 /\ gdb.stdout # <<>> /\ Head(gdb.stdout).mark = "^"
                 /\ mi'.resps = MapInsert(mi.resps, Head(gdb.stdout).token,
                                          GdbMiCommandResponse(Head(gdb.stdout)))
           /\ (call.pc = "await" /\ call' # call) =>
                 /\ call.token \in DOMAIN mi.resps
                 /\ call' = AfterCommand(command(mi.resps[call.token]))
                 /\ call.token \notin DOMAIN mi'.resps
         ]_vars

\* a later command of a call has returned its own response: the thread
\* selection of a snapshot, written after the listing of the threads
C23_Witness ==
    /\ call.op = "snapshot" /\ call.pc = "send" /\ call.cmd = "-stack-list-frames 0 1000"
    /\ call.token >= 3 /\ mi.response_id = call.token + 1
    /\ mi.resps = EmptyMap /\ gdb.stdin = <<>>

\* the reader has taken everything gdb wrote and the stream is at its end
AtEndOfOutput == gdb.eof /\ gdb.stdout = <<>>

\* C28: a turn of the reader loop that finds the output stream of gdb at its
\* end ends the loop.
C28_ReaderEndsAtEof ==
    [][ (AtEndOfOutput /\ mi.reader = "reading" /\ mi'.reader # mi.reader)
            => mi'.reader = "ended"
      ]_vars

\* gdb has written the response line of the command the caller is waiting for
ResponseWritten ==
    /\ call.pc = "await"
    /\ \/ call.token \in DOMAIN mi.resps
       \/ \E i \in DOMAIN gdb.stdout :
             gdb.stdout[i].mark = "^" /\ gdb.stdout[i].token = call.token

\* C30: once gdb has written the response line of a command, the call that
\* wrote the command returns from its wait, whatever run-state records gdb
\* wrote before or after the line.
C30_WrittenResponseReturns == ResponseWritten ~> call.pc # "await"

\* C24: while a handler's command is with the children (written and not yet
\* answered by all of them), no thread holds the tree-state mutex.
C24_NoLockAcrossChildIO ==
    \A c \in NodeConns : nconn[c].remote = "sent" => state_lock = 0

\* the commands a tree node sends on to its children
BroadcastKinds == {"Start", "Stop", "Continue", "GetState", "GetSnapshot", "Count"}

\* the identity of the result type of a TreeState method, as a response
IdentityResponse(kind) ==
    CASE kind \in {"Start", "Stop", "Continue"} -> RespOk
      [] kind = "GetState" -> RespState(EmptyMap)
      [] kind = "GetSnapshot" -> RespSnapshot(EmptyMap)
      [] kind = "Count" -> RespCount(0)

\* C27: on a node without children the TreeState methods start, stop and cont
\* return Ok, state and snapshot the empty map and count 0, and the call is
\* over in the step that makes it: nothing is sent and nothing is waited for.
C27_NoChildrenIdentity ==
    [][ \A c \in NodeConns :
          ( /\ nconn[c].pc = "running" /\ nconn[c].remote = "todo"
            /\ nconn'[c].remote # "todo"
            /\ nconn[c].cmd.kind \in BroadcastKinds
            /\ children[Self] = <<>> /\ ~poisoned )
          => /\ nconn'[c].remote = "done"
             /\ nconn'[c].answers = <<>>
             /\ nconn'[c].tree_result.ok
             /\ nconn'[c].tree_result.val = (IF nconn[c].cmd.kind = "Count" THEN 0 ELSE <<>>)
             /\ nconn'[c].remote_result = IdentityResponse(nconn[c].cmd.kind)
             /\ state_lock' = state_lock /\ poisoned' = poisoned
      ]_vars

\* a leaf node without children has answered 0 to the Count of its tree state
C27_Witness ==
    \E c \in NodeConns :
        /\ node_kind = "leaf" /\ children[Self] = <<>> /\ ~poisoned
        /\ nconn[c].pc = "running" /\ nconn[c].cmd.kind = "Count"
        /\ nconn[c].remote = "done" /\ nconn[c].local = "todo"
        /\ nconn[c].remote_result = RespCount(0)
        /\ nconn[c].answers = <<>>

\* the sum of the Count responses of the nodes of set among responses
RECURSIVE CountsOf(_, _)
CountsOf(set, responses) ==
    IF set = {} THEN 0
    ELSE LET n == CHOOSE k \in set : TRUE
         IN  responses[n].val + CountsOf(set \ {n}, responses)

\* every leaf of the job has joined the tree and serves, and no process died
FullyJoined ==
    /\ launched = Len(launch)
    /\ \A i \in Leaves : leaf[i].pc = "serving"
    /\ Reached = Leaves \cup {0}
    /\ dead = {}

\* C26: in a tree without dead processes whose nodes all serve, every node
\* answers Count with 1 for its debuggee plus the counts of its children, and
\* the Count of the root's tree state is the number of leaves seated in the
\* tree: the number of processes of the job once all have joined.
C26_CountIsNumberOfLeaves ==
    (dead = {} /\ ReachedServing) =>
        LET responses == Responses("Count")
        IN  /\ \A n \in Reached \ {0} :
                  /\ responses[n].kind = "Count"
                  /\ responses[n].val = 1 + CountsOf(Kids(n), responses)
            /\ RootCall("Count") = Ok(Cardinality(Reached \ {0}))
            /\ FullyJoined => RootCall("Count") = Ok(Len(launch))

\* a fully joined job with leaves below leaves, one of them with two children
C26_Witness ==
    /\ FullyJoined
    /\ Len(launch) > TREE_ARITY
    /\ \E n \in Leaves : Len(children[n]) >= 2
    /\ RootCall("Count").val = Len(launch)

\* C29: while a handler has a command to answer, some thread of the node can
\* take a step: the node is never left with commands read and every handler
\* waiting for ever.
C29_SomeHandlerProgresses ==
    (\E c \in NodeConns : nconn[c].pc = "running") => ENABLED NodeNext

(***************************************************************************)
(* tools.rs, lib.rs, protocol.rs: the messages on a connection.  A string  *)
(* is a sequence of code points, a stream a sequence of bytes.  One side   *)
(* writes messages of one type, the other reads them.                      *)
(***************************************************************************)
\* the longest string in a message
MaxStrLen == 2

\* how many messages are written on the connection
MaxMessages == 2

\* the characters of the strings: A, the quote, the backslash, NUL and e acute
Alphabet == {65, 34, 92, 0, 233}

Strings == UNION {[1..n -> Alphabet] : n \in 0..MaxStrLen}

\* a GdbMachineCommand or a GdbMachineResponse: its variant and its payload
WireMsg(type, kind, text, num) == [type |-> type, kind |-> kind, text |-> text, num |-> num]

NoMessage == WireMsg("None", "", <<>>, 0)

\* the messages of a type: Start and Join(String) among the commands,
\* Error(String) and Count(u64) among the responses
WireMessages(type) ==
    IF type = "Command"
    THEN {WireMsg(type, "Start", <<>>, 0)} \cup {WireMsg(type, "Join", t, 0) : t \in Strings}
    ELSE {WireMsg(type, "Error", t, 0) : t \in Strings}
            \cup {WireMsg(type, "Count", <<>>, n) : n \in {0, 12}}

\* the bytes of the variant names, quoted as serde_json writes them
NameStart == <<34, 83, 116, 97, 114, 116, 34>>

NameJoin == <<34, 74, 111, 105, 110, 34>>

NameError == <<34, 69, 114, 114, 111, 114, 34>>

NameCount == <<34, 67, 111, 117, 110, 116, 34>>

\* the hexadecimal digit of d, and the value of the digit b (16 when it is none)
HexDigit(d) == IF d < 10 THEN 48 + d ELSE 87 + d

HexValue(b) ==
    IF b >= 48 /\ b <= 57 THEN b - 48
    ELSE IF b >= 97 /\ b <= 102 THEN b - 87
    ELSE IF b >= 65 /\ b <= 70 THEN b - 55
    ELSE 16

\* serde_json's writing of one character of a string: the quote and the
\* backslash are escaped, a control character is written \u00XX, every other
\* character is written as its UTF-8 bytes
EscapedChar(ch) ==
    IF ch = 34 THEN <<92, 34>>
    ELSE IF ch = 92 THEN <<92, 92>>
    ELSE IF ch < 32 THEN <<92, 117, 48, 48, HexDigit(ch \div 16), HexDigit(ch % 16)>>
    ELSE IF ch < 128 THEN <<ch>>
    ELSE <<192 + (ch \div 64), 128 + (ch % 64)>>

RECURSIVE Escaped(_)
Escaped(text) == IF text = <<>> THEN <<>> ELSE EscapedChar(Head(text)) \o Escaped(Tail(text))

JsonString(text) == <<34>> \o Escaped(text) \o <<34>>

RECURSIVE Digits(_)
Digits(n) == IF n < 10 THEN <<48 + n>> ELSE Digits(n \div 10) \o <<48 + (n % 10)>>

\* serde_json::to_string of a message
to_string(msg) ==
    CASE msg.kind = "Start" -> NameStart
      [] msg.kind = "Join" -> <<123>> \o NameJoin \o <<58>> \o JsonString(msg.text) \o <<125>>
      [] msg.kind = "Error" -> <<123>> \o NameError \o <<58>> \o JsonString(msg.text) \o <<125>>
      [] msg.kind = "Count" -> <<123>> \o NameCount \o <<58>> \o Digits(msg.num) \o <<125>>

\* read_until_null: the bytes are read one by one; a NUL ends the message, and
\* every other byte is converted by from_utf8 on its own, which fails on a
\* byte that is not ASCII.  The byte that fails has been taken off the stream.
RECURSIVE read_until_null(_, _)
read_until_null(stream, acc) ==
    IF stream = <<>> THEN [ok |-> TRUE, text |-> acc, rest |-> <<>>]
    ELSE IF Head(stream) = 0 THEN [ok |-> TRUE, text |-> acc, rest |-> Tail(stream)]
    ELSE IF Head(stream) >= 128 THEN [ok |-> FALSE, text |-> <<>>, rest |-> Tail(stream)]
    ELSE read_until_null(Tail(stream), Append(acc, Head(stream)))

\* the characters of the inside of a JSON string, or the failure to parse it
RECURSIVE Unescaped(_)
Unescaped(bs) ==
    IF bs = <<>> THEN [ok |-> TRUE, text |-> <<>>]
    ELSE LET b == bs[1]
             then(from) == Unescaped(SubSeq(bs, from, Len(bs)))
             with(ch, from) ==
                 IF then(from).ok THEN [ok |-> TRUE, text |-> <<ch>> \o then(from).text]
                 ELSE [ok |-> FALSE, text |-> <<>>]
             bad == [ok |-> FALSE, text |-> <<>>]
         IN  IF b = 92
             THEN IF Len(bs) >= 2 /\ bs[2] \in {34, 92} THEN with(bs[2], 3)
                  ELSE IF /\ Len(bs) >= 6 /\ bs[2] = 117
                          /\ \A i \in 3..6 : HexValue(bs[i]) < 16
                       THEN with(((HexValue(bs[3]) * 16 + HexValue(bs[4])) * 16
                                     + HexValue(bs[5])) * 16 + HexValue(bs[6]), 7)
                  ELSE bad
             ELSE IF b = 34 \/ b < 32 THEN bad
             ELSE IF b < 128 THEN with(b, 2)
             ELSE IF /\ b >= 192 /\ b < 224 /\ Len(bs) >= 2
                     /\ bs[2] >= 128 /\ bs[2] < 192
                  THEN with((b - 192) * 64 + (bs[2] - 128), 3)
             ELSE bad

\* the number written in decimal digits, or -1
RECURSIVE Number(_)
Number(bs) ==
    IF bs = <<>> \/ \E i \in DOMAIN bs : bs[i] < 48 \/ bs[i] > 57 THEN 0 - 1
    ELSE IF Len(bs) = 1 THEN bs[1] - 48
    ELSE Number(SubSeq(bs, 1, Len(bs) - 1)) * 10 + (bs[Len(bs)] - 48)

\* bs is {name:payload}
Tagged(bs, name) ==
    /\ Len(bs) >= Len(name) + 3
    /\ SubSeq(bs, 1, Len(name) + 2) = <<123>> \o name \o <<58>>
    /\ bs[Len(bs)] = 125

Payload(bs, name) == SubSeq(bs, Len(name) + 3, Len(bs) - 1)

\* serde_json::from_str of the text to a message of a type
from_str(bs, type) ==
    LET failed == [ok |-> FALSE, msg |-> NoMessage]
        string(name, kind) ==
            LET p == Payload(bs, name)
            IN  IF Len(p) >= 2 /\ p[1] = 34 /\ p[Len(p)] = 34
                   /\ Unescaped(SubSeq(p, 2, Len(p) - 1)).ok
                THEN [ok |-> TRUE,
                      msg |-> WireMsg(type, kind, Unescaped(SubSeq(p, 2, Len(p) - 1)).text, 0)]
                ELSE failed
    IN  IF type = "Command"
        THEN IF bs = NameStart THEN [ok |-> TRUE, msg |-> WireMsg(type, "Start", <<>>, 0)]
             ELSE IF Tagged(bs, NameJoin) THEN string(NameJoin, "Join")
             ELSE failed
        ELSE IF Tagged(bs, NameError) THEN string(NameError, "Error")
             ELSE IF Tagged(bs, NameCount) /\ Number(Payload(bs, NameCount)) >= 0
             THEN [ok |-> TRUE,
                   msg |-> WireMsg(type, "Count", <<>>, Number(Payload(bs, NameCount)))]
             ELSE failed

WireInit ==
    /\ wire \in {[type |-> t, sent |-> <<>>, stream |-> <<>>, received |-> <<>>] :
                    t \in {"Command", "Response"}}
    /\ NoDriver
    /\ NoReducer
    /\ NoMachine
    /\ dist = <<>>

\* GdbClient::do_command, _client_loop: the message is written as its JSON
\* followed by one NUL byte
WireWrite(msg) ==
    /\ Len(wire.sent) < MaxMessages
    /\ wire' = [wire EXCEPT !.sent = Append(@, msg),
                            !.stream = @ \o to_string(msg) \o <<0>>]
    /\ UNCHANGED <<machineVars, reducerOnly, driverOnly, dist>>

\* GdbClient::do_command, _client_loop: a message is read up to the NUL and
\* parsed; the error of either step is the result of the read
WireRead ==
    /\ wire.stream # <<>>
    /\ LET r == read_until_null(wire.stream, <<>>)
           res == IF r.ok THEN from_str(r.text, wire.type)
                  ELSE [ok |-> FALSE, msg |-> NoMessage]
       IN  wire' = [wire EXCEPT !.stream = r.rest, !.received = Append(@, res)]
    /\ UNCHANGED <<machineVars, reducerOnly, driverOnly, dist>>

WireNext ==
    \/ \E msg \in WireMessages(wire.type) : WireWrite(msg)
    \/ WireRead

SpecWire == WireInit /\ [][WireNext]_vars

\* C25: the messages read from a connection are the messages written on it,
\* one by one in the order written, whatever the strings they hold.
C25_WireRoundTrip ==
    /\ Len(wire.received) <= Len(wire.sent)
    /\ \A i \in DOMAIN wire.received :
          wire.received[i] = [ok |-> TRUE, msg |-> wire.sent[i]]

\* the descriptors of the launch are pairwise distinct
DistinctDescriptors == \A i, j \in Leaves : launch[i] = launch[j] => i = j

\* every leaf is on the children list of the attacher its Pivot response named
AllAttached ==
    \A i \in Leaves :
        /\ leaf[i].presp.kind = "Pivot"
        /\ LeafUrl(i) \in Range(children[NodeOf(leaf[i].presp.url)])

\* C31: in a job whose leaves have pairwise distinct descriptors and in which
\* no process dies, every leaf ends up attached where the root said and the
\* root's wait returns: so no leaf gives up its handshake (run_as_leaf
\* returning an error, after which the leaf never joins) and the wait of the
\* root does not end in a failure.
C31_AllLeavesJoinEventually ==
    (DistinctDescriptors /\ dead = {}) =>
        /\ \A i \in Leaves : leaf[i].pc # "failed"
        /\ root.op \in {"None", "Count"} => root.pc # "failed"
        /\ root.pc = "ready" => AllAttached

\* the reader takes a line in this step
ReadsLine == mi.reader # "ended" /\ isrunning /\ gdb.stdout # <<>> /\ gdb' # gdb

\* the log buffer, the run state and the pending-responses table of m
Buffers(m) == <<m.gdblog, m.runstate, m.resps>>

\* what the reader does with a line, by its sigil; ignored holds the sigils of
\* the lines that are dropped, and a line of any further kind is echoed
HandledBySigil(ignored) ==
    ReadsLine =>
        LET line == Head(gdb.stdout)
        IN  /\ gdb'.stdout = Tail(gdb.stdout)
            /\ mi'.response_id = mi.response_id
            /\ CASE line.mark = "~" ->
                      /\ mi'.gdblog = Append(mi.gdblog, line.val)
                      /\ mi'.runstate = mi.runstate /\ mi'.resps = mi.resps
                      /\ mi'.echoed = mi.echoed
                 [] line.mark = "*" ->
                      /\ mi'.runstate # <<>>
                      /\ mi'.runstate[1].tag = (IF line.class = "running" THEN "Running"
                                                ELSE "Stopped")
                      /\ line.class = "stopped" =>
                            mi'.runstate[1].stop = <<StopReason(line.val[1], line.val[2],
                                                                line.val[3])>>
                      /\ mi'.gdblog = mi.gdblog /\ mi'.resps = mi.resps
                      /\ mi'.echoed = mi.echoed
                 [] line.mark = "^" ->
                      /\ DOMAIN mi'.resps = DOMAIN mi.resps \cup {line.token}
                      /\ \A t \in DOMAIN mi.resps \ {line.token} : mi'.resps[t] = mi.resps[t]
                      /\ mi'.resps[line.token].tag =
                            (CASE line.class = "error" -> "Error"
                               [] line.class \in {"done", "running"} -> "Done"
                               [] OTHER -> "ParseError")
                      /\ mi'.resps[line.token].val = line.val
                      /\ mi'.gdblog = mi.gdblog /\ mi'.runstate = mi.runstate
                      /\ mi'.echoed = mi.echoed
                 [] line.mark \in ignored ->
                      /\ Buffers(mi') = Buffers(mi)
                      /\ mi'.echoed = mi.echoed
                 [] OTHER ->
                      /\ Buffers(mi') = Buffers(mi)
                      /\ mi'.echoed = Append(mi.echoed, line)

\* C32: the reader handles each line by its sigil: ~ appends the payload to
\* the log buffer, * replaces the run state with the parsed record, token^
\* inserts the parsed response under the token, the lines = and &, the prompt
\* and the lines that begin with the escape sequence ESC[H are dropped, and
\* any other line is printed; a line changes at most one of the log buffer, the
\* run state and the pending-responses table.
C32_LinesBySigil == [][HandledBySigil({"=", "&", "(gdb)", "esc"})]_vars

\* C32 as stated, with every line but =, & and the prompt printed
C32_AsStated == [][HandledBySigil({"=", "&", "(gdb)"})]_vars

\* the reader has taken a console line, a result record and an exec record,
\* one after the other
C32_Witness ==
    /\ gdb.stdout = <<>> /\ mi.response_id = 10
    /\ mi.gdblog = <<<<"console">>>>
    /\ DOMAIN mi.resps = {9} /\ mi.resps[9].tag = "ParseError"
    /\ mi.runstate = <<RunStateStopped(StopSigint)>>
    /\ mi.echoed = <<>>

\* GdbMiState::await_response returns in this step
AwaitReturns == call.pc = "await" /\ call' # call

\* GdbMiState::_send_command writes a command in this step
CommandSent == call.pc = "send" /\ call'.pc = "await"

\* C33: a response of class error makes the command return an error with the
\* payload, one of a class other than done, running and error a parse error
\* with the payload, and one of class done or running the payload; a failed
\* command ends its method with that error and changes neither the run state
\* nor the log nor the other responses, and every command is sent with a token
\* that no earlier command had and returns with the response under that token.
C33_ErrorFailsOnlyCall ==
    [][/\ AwaitReturns =>
            LET resp == mi.resps[call.token]
                res == command(resp)
            IN  /\ resp.tag = "Error" =>
                      res = Err(<<Part("Command returned an error", resp.val)>>)
                /\ resp.tag = "ParseError" =>
                      res = Err(<<Part("Failed to parse response", resp.val)>>)
                /\ resp.tag = "Done" => res = Ok(resp.val)
                /\ resp.tag \in {"Done", "Error", "ParseError"}
                /\ ~res.ok => call'.pc = "idle" /\ call'.result = res
                /\ call.op = "cmd" => call'.pc = "idle" /\ call'.result = res
                /\ mi'.runstate = mi.runstate /\ mi'.gdblog = mi.gdblog
                /\ mi'.response_id = mi.response_id
                /\ mi'.resps = [t \in DOMAIN mi.resps \ {call.token} |-> mi.resps[t]]
                /\ gdb' = gdb
       /\ CommandSent =>
            /\ call'.token = mi.response_id /\ mi'.response_id = mi.response_id + 1
            /\ call'.token \notin DOMAIN mi.resps
            /\ \A i \in 1..Len(gdb.stdin) : gdb.stdin[i].token < call'.token
            /\ \A i \in 1..Len(gdb.stdout) : gdb.stdout[i].token < call'.token]_vars

\* the second method called failed with gdb's error, after a first one whose
\* command was answered
C33_Witness ==
    /\ call.calls = 2 /\ call.op = "cont" /\ call.pc = "idle"
    /\ call.result = Err(<<Part("Command returned an error", <<"msg">>)>>)
    /\ mi.response_id = 4 /\ mi.resps = EmptyMap

(***************************************************************************)
(* The request loop of one connection (GdbMachine::_client_loop) on the    *)
(* bytes its client wrote: whole messages, or messages that the end of     *)
(* the connection cuts at some byte.                                       *)
(***************************************************************************)
\* the commands a client writes on the connection
LoopCommands ==
    {WireMsg("Command", "Start", <<>>, 0)}
        \cup {WireMsg("Command", "Join", t, 0) : t \in {<<>>, <<65>>, <<233>>}}

RECURSIVE Written(_)
\* the bytes of the messages msgs, each followed by its NUL
Written(msgs) ==
    IF msgs = <<>> THEN <<>> ELSE to_string(Head(msgs)) \o <<0>> \o Written(Tail(msgs))

\* the connection is accepted, and its client wrote some commands and closed
\* it: the stream holds the bytes that arrived before the end of file, which
\* are those of the commands, all of them or the first cut bytes only, or some
\* text that is no command
LoopInit ==
    /\ \E msgs \in UNION {[1..n -> LoopCommands] : n \in 0..MaxMessages} :
          \E cut \in 0..Len(Written(msgs)) :
             \E text \in {Written(msgs), <<65, 0>> \o Written(msgs)} :
                wire = [pc |-> "reading", stream |-> SubSeq(text, 1, Len(text) - cut),
                        executed |-> <<>>, written |-> 0, result |-> "running"]
    /\ NoDriver
    /\ NoReducer
    /\ NoMachine
    /\ dist = <<>>

\* one turn of _client_loop: the read up to the NUL or the end of file, the
\* break on an empty text, the decoding, the command run by _run_command and
\* the response written; the write fails or not when the client is gone
_client_loop ==
    /\ wire.pc = "reading"
    /\ LET r == read_until_null(wire.stream, <<>>)
           decoded == from_str(r.text, "Command")
       IN  IF ~r.ok
           THEN wire' = [wire EXCEPT !.pc = "ended", !.result = "error", !.stream = r.rest]
           ELSE IF r.text = <<>>
           THEN wire' = [wire EXCEPT !.pc = "ended", !.result = "ok", !.stream = r.rest]
           ELSE IF ~decoded.ok
           THEN wire' = [wire EXCEPT !.pc = "ended", !.result = "error", !.stream = r.rest]
           ELSE \E delivered \in BOOLEAN :
                   /\ ~delivered => r.rest = <<>>
                   /\ wire' = IF delivered
                              THEN [wire EXCEPT !.executed = Append(@, decoded.msg),
                                                !.written = @ + 1, !.stream = r.rest]
                              ELSE [wire EXCEPT !.executed = Append(@, decoded.msg),
                                                !.pc = "ended", !.result = "error",
                                                !.stream = r.rest]
    /\ UNCHANGED <<machineVars, reducerOnly, driverOnly, dist>>

SpecLoop == LoopInit /\ [][_client_loop]_vars

\* the next message of the connection is cut short by the end of file: some
\* of its bytes are there and its NUL is not
CutShort == wire.stream # <<>> /\ \A i \in DOMAIN wire.stream : wire.stream[i] # 0

\* the next message of the connection is whole and is not a command
Undecodable ==
    /\ \E i \in DOMAIN wire.stream : wire.stream[i] = 0
    /\ LET r == read_until_null(wire.stream, <<>>)
       IN  ~r.ok \/ (r.text # <<>> /\ ~from_str(r.text, "Command").ok)

\* C34: the request loop of a connection ends, with no command run and no
\* response written, when it reads the end of file, a message that the end of
\* file cuts short, or a message that is not a command.
C34_LoopEndsQuietly ==
    [][(wire.pc = "reading" /\ (wire.stream = <<>> \/ CutShort \/ Undecodable)) =>
           /\ wire'.pc = "ended"
           /\ wire'.executed = wire.executed
           /\ wire'.written = wire.written]_vars

\* the handler of connection c merges its two results in this step into m
Merges(c, m) ==
    /\ nconn[c].pc = "running" /\ nconn'[c].pc = "handled"
    /\ m = nconn'[c].resp

\* where the handler of each connection is
Stages == [c \in NodeConns |-> nconn[c].pc]

\* the count of the component h in the component map of a response
CountIn(resp, h) == IF h \in DOMAIN resp.val THEN resp.val[h][1] ELSE 0

\* C35: what a node answers is the merge of its local result l with the result
\* r of its children: l itself when there is no r, an Error when either is an
\* Error, Ok for two Ok, for two State maps the map of the ids of both with
\* the run state of one of them, for two Counts their sum, for two Snapshots
\* the components of both with their counts added; and no handler ends in the
\* merge, but only in a task that panicked.
C35_MergeByKind ==
    [][\A c \in NodeConns :
          LET l == nconn[c].local_result
              r == nconn[c].remote_result
          IN  /\ \A m \in {nconn'[c].resp} :
                    Merges(c, m) =>
                       /\ r.kind = "None" => m = l
                       /\ r.kind # "None" /\ "Error" \in {l.kind, r.kind} => m.kind = "Error"
                       /\ l.kind = "Ok" /\ r.kind = "Ok" => m.kind = "Ok"
                       /\ l.kind = "State" /\ r.kind = "State" =>
                             /\ m.kind = "State"
                             /\ DOMAIN m.val = DOMAIN l.val \cup DOMAIN r.val
                             /\ \A k \in DOMAIN m.val :
                                   \/ k \in DOMAIN l.val /\ m.val[k] = l.val[k]
                                   \/ k \in DOMAIN r.val /\ m.val[k] = r.val[k]
                       /\ l.kind = "Count" /\ r.kind = "Count" =>
                             m.kind = "Count" /\ m.val = l.val + r.val
                       /\ l.kind = "Snapshot" /\ r.kind = "Snapshot" =>
                             /\ m.kind = "Snapshot"
                             /\ DOMAIN m.val = DOMAIN l.val \cup DOMAIN r.val
                             /\ \A h \in DOMAIN m.val :
                                   m.val[h][1] = CountIn(l, h) + CountIn(r, h)
              /\ (nconn[c].pc = "running" /\ nconn'[c].pc = "aborted") =>
                    "Panic" \in {l.kind, r.kind}]_Stages

\* a node answered a snapshot in which a component of its own program and of
\* a child's program is counted for both
C35_Witness ==
    \E c \in NodeConns :
        /\ nconn[c].pc = "handled"
        /\ nconn[c].local_result.kind = "Snapshot"
        /\ nconn[c].remote_result.kind = "Snapshot"
        /\ \E h \in DOMAIN nconn[c].local_result.val \cap DOMAIN nconn[c].remote_result.val :
              nconn[c].resp.val[h][1] >= 2

(***************************************************************************)
(* strdistance on its own: two strings are drawn and their distances are   *)
(* computed.                                                               *)
(***************************************************************************)
\* the characters of the strings: two letters, one of two bytes (e acute)
\* and one of three (the euro sign)
DistAlphabet == {65, 66, 233, 8364}

DistStrings == UNION {[1..n -> DistAlphabet] : n \in 0..MaxStrLen}

DistInit ==
    /\ dist \in {[pc |-> "drawn", a |-> a, b |-> b, ab |-> 0, ba |-> 0, aa |-> 0] :
                    a \in DistStrings, b \in DistStrings}
    /\ NoDriver
    /\ NoReducer
    /\ NoMachine
    /\ wire = <<>>

\* strdistance is called on the two strings, both ways, and on the first alone
Distances ==
    /\ dist.pc = "drawn"
    /\ dist' = [dist EXCEPT !.pc = "computed",
                            !.ab = strdistance(dist.a, dist.b),
                            !.ba = strdistance(dist.b, dist.a),
                            !.aa = strdistance(dist.a, dist.a)]
    /\ UNCHANGED <<machineVars, reducerOnly, driverOnly, wire>>

SpecDistance == DistInit /\ [][Distances]_vars

\* the sum of f over the set of positions S
RECURSIVE SumOver(_, _)
SumOver(f, S) ==
    IF S = {} THEN 0
    ELSE LET i == CHOOSE x \in S : TRUE IN f[i] + SumOver(f, S \ {i})

\* C36: the distance of a and b is the sum, over the positions below the
\* larger of the two lengths, of the absolute difference of the character
\* codes at the position, 0 standing for a character that is missing; the
\* distance of a string to itself is 0 and the distance is symmetric.
C36_DistanceIsSumOfDifferences ==
    dist.pc = "computed" =>
        LET a == dist.a
            b == dist.b
            n == IF Len(a) >= Len(b) THEN Len(a) ELSE Len(b)
            code(s, i) == IF i \in DOMAIN s THEN s[i] ELSE 0
            diff == [i \in 1..n |-> IF code(a, i) >= code(b, i)
                                    THEN code(a, i) - code(b, i)
                                    ELSE code(b, i) - code(a, i)]
        IN  /\ dist.ab = SumOver(diff, 1..n)
            /\ dist.aa = 0
            /\ dist.ab = dist.ba

\* the distance of two strings of different lengths with a character of more
\* than one byte was computed
C36_Witness ==
    /\ dist.pc = "computed"
    /\ dist.a = <<65, 233>> /\ dist.b = <<66>>
    /\ dist.ab = 234

\* the Debugger methods of GdbClient: what the method of the command kind
\* returns to its caller for the response resp of the server.  start, stop and
\* cont apply GdbMachineResponse::ok, state applies GdbMachineResponse::state,
\* which is unreachable!() on a response that is no State, snapshot and
\* symbols return an error on any other response.
GdbClientCall(kind, resp) ==
    CASE kind \in {"Start", "Stop", "Continue"} -> resp_ok(resp)
      [] kind = "GetState" -> IF resp.kind = "State" THEN Ok(resp.val) ELSE Panicked
      [] kind = "GetSnapshot" ->
            IF resp.kind = "Snapshot" THEN Ok(resp.val)
            ELSE Err(<<Part("Failed to retrieve snapshot from command", <<>>)>>)
      [] kind = "GetSymbols" ->
            IF resp.kind = "Symbols" THEN Ok(resp.val)
            ELSE Err(<<Part("Failed to retrieve snapshot from command", <<>>)>>)

\* C37: when the node answers Error to start, stop, cont, state, snapshot or
\* symbols, the method of the client returns an error to its caller, and does
\* not panic.
C37_ClientReturnsError ==
    \A c \in NodeConns :
        (/\ nconn[c].pc = "handled"
         /\ nconn[c].resp.kind = "Error"
         /\ nconn[c].cmd.kind \in {"Start", "Stop", "Continue", "GetState", "GetSnapshot",
                                   "GetSymbols"}) =>
            LET res == GdbClientCall(nconn[c].cmd.kind, nconn[c].resp)
            IN  ~res.panic /\ ~res.ok

\* the local task of each connection: to do, or done
LocalTasks == [c \in NodeConns |-> nconn[c].local]

\* C38: a thread that locks the debugger mutex of the node does not hold the
\* tree-state mutex: the debugger mutex is the first of the two that a thread
\* takes, and no thread waits for it with the tree-state mutex held.
C38_DebuggerLockedFirst ==
    [][\A d \in NodeConns :
          (nconn[d].pc = "running" /\ nconn[d].local = "todo" /\ nconn'[d].local = "done") =>
              ~(nconn'[d].local_thread # 0 /\ state_lock = nconn'[d].local_thread)]_LocalTasks

\* the nodes whose children list holds the URL of leaf i
Holders(i) == {n \in DOMAIN children : LeafUrl(i) \in Range(children[n])}

\* the children connections of the tree: <<node, position on its list>>
Connections == UNION {{<<m, j>> : j \in DOMAIN children[m]} : m \in DOMAIN children}

\* the number of ways to go from the root to node n along children
\* connections, in at most fuel steps
RECURSIVE PathsTo(_, _)
PathsTo(n, fuel) ==
    IF n = 0 THEN 1
    ELSE IF fuel = 0 THEN 0
    ELSE LET into == {p \in Connections : children[p[1]][p[2]] = LeafUrl(n)}
             count[S \in SUBSET into] ==
                 IF S = {} THEN 0
                 ELSE LET p == CHOOSE x \in S : TRUE
                      IN  PathsTo(p[1], fuel - 1) + count[S \ {p}]
         IN  count[into]

\* C39: the URL of a leaf is on at most one children list, once, and that list
\* is the one of the attacher that the root's Pivot response named to the
\* leaf; the URL of the root is on none; and every node that the children
\* connections reach from the root is reached in exactly one way, so that a
\* command of the root is sent to it once.
C39_EachLeafAttachedOnce ==
    /\ \A i \in Leaves :
          /\ Cardinality(Holders(i)) <= 1
          /\ \A n \in Holders(i) :
                /\ Cardinality({j \in DOMAIN children[n] : children[n][j] = LeafUrl(i)}) = 1
                /\ leaf[i].presp.kind = "Pivot"
                /\ n = NodeOf(leaf[i].presp.url)
    /\ \A n \in DOMAIN children : RootUrl \notin Range(children[n])
    /\ \A n \in Reached : PathsTo(n, Len(launch)) = 1

\* every leaf of a launch of more than TREE_ARITY leaves has joined, and
\* some leaf is attached to a leaf that is attached to a leaf
C39_Witness ==
    /\ FullyJoined
    /\ \E i, j, k \in Leaves :
          /\ LeafUrl(i) \in Range(children[j])
          /\ LeafUrl(j) \in Range(children[k])
          /\ LeafUrl(k) \in Range(children[0])

\* the keys under which a Pivot with the new descriptor d can be attached:
\* ROOT while it is not full, a closest match afterwards
AttachKeys(d) ==
    IF ~full(seen_children[ROOT].factory) THEN {ROOT} ELSE ClosestMatches(seen_children, d)

\* C40: whenever a handler calls inherit() on a factory of the registry, at any
\* depth of the tree, root_id + 1 + stride * offset and dynamic - 1 are
\* computed within the u64 range: no step wraps around, and dynamic is not 0.
C40_InheritStaysInRange ==
    [][\A c \in Conns :
          (/\ pconn[c].pc = "read" /\ pconn'[c].pc # "read"
           /\ ~poisoned
           /\ pconn[c].desc \notin DOMAIN seen_children)
          => \A k \in AttachKeys(pconn[c].desc) :
                /\ ~inherit(seen_children[k].factory).ovf
                /\ seen_children[k].factory.dynamic # U64Zero
      ]_vars

=============================================================================
